---- MODULE Spec2Model ----
(***************************************************************************)
(* prototester: IPv4/IPv6 latency tester.                                  *)
(*                                                                         *)
(* Two engines live in the repository and are modelled side by side:       *)
(*   impl = "gui"  prototester-gui/internal/tester/tester.go               *)
(*   impl = "cli"  main.go (the command line tool, func main at line 1508) *)
(*                                                                         *)
(* time.Duration is an int64 count of nanoseconds; the model keeps         *)
(* nanoseconds.  float64 values (scores, success rates) are modelled as    *)
(* exact reduced fractions <<n, d>>, so float rounding is not modelled.    *)
(***************************************************************************)
EXTENDS Integers, Naturals, Sequences, FiniteSets, TLC

VARIABLES
    impl,       \* which engine runs: "gui" or "cli"
    \* ---- pure statistics reduction (SpecStats) ----
    statsIn,    \* the []PingResult handed to calculateStats
    statsOut,   \* the Statistics it returned
    statsPc,    \* "input" before the call, "done" after it, "printed" once the
                \* command line tool has printed it, "off" in other specifications
    statsPrinted, \* the percentiles printProtocolStats printed: percentile -> latency
    \* ---- score calculation on its own (SpecScore) ----
    scoreKind,  \* which comparison is scored: "TCP/UDP", "ICMP", "HTTP" or "DNS"
    scoreCmp,   \* the ComparisonResult being scored
    scorePc,    \* "input" before the call, "done" after it, "printed", "off" in other specifications
    scorePrinted, \* the winner line of the printed report: [winner, loserScore, percent]
    \* ---- one ICMP probe: testICMPv4 / testICMPv6 (SpecICMP) ----
    icmpFamily,   \* "4" or "6"
    icmpEnv,      \* what each mechanism would return on this host and network
    icmpSize,     \* lt.size, the configured ICMP payload size in bytes
    icmpPc,       \* the statement of testICMPv4/6 about to run, "returned" at the end
    icmpAttempts, \* the mechanisms tried so far, in order
    icmpResult,   \* the local variable result
    icmpEchoes,   \* history: per mechanism, the echo requests written to its socket
    icmpOpen,     \* the mechanisms whose socket or connection is open
    icmpSockets,  \* history: the sockets and connections opened so far
    \* ---- a tester and the operations run on it (Spec) ----
    config,     \* the TestConfig handed to NewTester / the flags of the command line
    lt,         \* the LatencyTester's fields
    net,        \* the condition of the path to the target over each address family
    results4,   \* lt.results4
    results6,   \* lt.results6
    op,         \* the operation in progress or last run: [mode, protocol]
    pc,         \* the statement about to run
    locals,     \* the operation's local variables: resolved addresses, saved settings
    plan,       \* the calls of testIPv4 / testIPv6 the operation still has to make
    i,          \* the loop variable of testIPv4 / testIPv6
    cur,        \* the probe in flight and, once it has returned, its result
    comparison, \* the ComparisonResult being filled in
    out,        \* what the operation handed back: the *TestResult or the JSON output
    seqLog,     \* history: the sequence numbers dispatched by this call of testIPv4/6
    sleeps,     \* history: the interval sleeps taken by this call of testIPv4/6
    phaseLog,   \* history: the calls of testIPv4/6 this operation has completed
    listAccess, \* history: the last access to lt.results4 / lt.results6: [kind, mu]
    \* ---- one DNS probe: testDNS (SpecDNS) ----
    dnsProtocol, \* lt.dnsProtocol
    dnsQueryID,  \* the ID buildDNSQuery drew for the query
    dnsReply,    \* what the transport will deliver
    dnsPc,       \* "call" before testDNS runs, "returned" after it
    dnsResult,   \* the PingResult testDNS returned
    \* ---- the daemon: runDaemon and runTestCycle (SpecDaemon) ----
    daemon,      \* config.Daemon as the configuration file gives it
    tests,       \* config.Tests
    daemonPc,    \* where runDaemon / runTestCycle stands
    testIdx,     \* position of the range loop over config.Tests
    retries,     \* runTestCycle: retries
    daemonResult,      \* runTestCycle: result
    sigChan,     \* a signal is waiting in sigChan
    tickerC,     \* a tick is waiting in ticker.C
    pidFile,     \* the PID file exists
    cycles,      \* history: calls of runTestCycle so far
    attempts,    \* history: per test, the results of runSingleTest in this cycle
    waits,       \* history: per test, the retry sleeps of this cycle
    cycleOutput, \* history: per test, the results written in this cycle
    stopped,     \* history: runTestCycle has reported "Stopping daemon"
    \* ---- the desktop application: App (SpecApp) ----
    testHistory, \* a.testHistory
    clock,       \* time.Now().UnixNano() as last read for an entry's ID
    callerPc,    \* per frontend call of RunTest: where it stands
    callerReq,   \* per frontend call of RunTest: req.Protocol
    started,     \* history: calls of RunTest so far
    deleted,     \* history: calls of DeleteHistoryEntry so far
    \* ---- one echo request and its receive loop: sendICMPv4/6Unprivileged, sendICMPv4/6Raw (SpecEcho) ----
    echoMech,    \* "unpriv": datagram ICMP socket, "raw": raw socket
    echoFamily,  \* "4" or "6"
    echoSeq,     \* the argument seq
    echoPc,      \* "send", "loop" or "returned"
    echoElapsed, \* time since start, in ticks
    echoRequest, \* the packet written to the socket
    echoReply,   \* the packet the last Recvfrom delivered
    echoEvent,   \* what ended the last wait: "packet", "eintr", "timeout"
    echoResult,  \* the PingResult returned
    \* ---- one call of calculateChecksum (SpecChecksum) ----
    ckPacket, \* the bytes of the argument before the call
    ckData,   \* the bytes of the argument after the call
    ckSum,    \* the value returned
    ckPc      \* "call" or "returned"

statsVars == <<statsIn, statsOut, statsPc, statsPrinted>>
scoreVars == <<scoreKind, scoreCmp, scorePc, scorePrinted>>
icmpVars == <<icmpFamily, icmpEnv, icmpSize, icmpPc, icmpAttempts, icmpResult, icmpEchoes,
             icmpOpen, icmpSockets>>
runVars == <<config, lt, net, results4, results6, op, pc, locals, plan, i, cur, comparison, out,
            seqLog, sleeps, phaseLog, listAccess>>
dnsVars == <<dnsProtocol, dnsQueryID, dnsReply, dnsPc, dnsResult>>
daemonVars == <<daemon, tests, daemonPc, testIdx, retries, daemonResult, sigChan, tickerC, pidFile,
                cycles, attempts, waits, cycleOutput, stopped>>
appVars == <<testHistory, clock, callerPc, callerReq, started, deleted>>
echoVars == <<echoMech, echoFamily, echoSeq, echoPc, echoElapsed, echoRequest, echoReply, echoEvent, echoResult>>
checksumVars == <<ckPacket, ckData, ckSum, ckPc>>
notChecksumVars == <<statsVars, scoreVars, icmpVars, runVars, dnsVars, daemonVars, appVars, echoVars>>
notEchoVars == <<statsVars, scoreVars, icmpVars, runVars, dnsVars, daemonVars, appVars, checksumVars>>
notAppVars == <<statsVars, scoreVars, icmpVars, runVars, dnsVars, daemonVars, echoVars, checksumVars>>
notStatsVars == <<scoreVars, icmpVars, runVars, dnsVars, daemonVars, appVars, echoVars, checksumVars>>
notScoreVars == <<statsVars, icmpVars, runVars, dnsVars, daemonVars, appVars, echoVars, checksumVars>>
notIcmpVars == <<statsVars, scoreVars, runVars, dnsVars, daemonVars, appVars, echoVars, checksumVars>>
notRunVars == <<statsVars, scoreVars, icmpVars, dnsVars, daemonVars, appVars, echoVars, checksumVars>>
notDnsVars == <<statsVars, scoreVars, icmpVars, runVars, daemonVars, appVars, echoVars, checksumVars>>
notDaemonVars == <<statsVars, scoreVars, icmpVars, runVars, dnsVars, appVars, echoVars, checksumVars>>
vars == <<impl, statsIn, statsOut, statsPc, statsPrinted, scoreKind, scoreCmp, scorePc,
          scorePrinted,
          icmpFamily, icmpEnv, icmpSize, icmpPc, icmpAttempts, icmpResult, icmpEchoes,
          icmpOpen, icmpSockets,
          config, lt, net, results4, results6, op, pc, locals, plan, i, cur, comparison, out,
          seqLog, sleeps, phaseLog, listAccess,
          dnsProtocol, dnsQueryID, dnsReply, dnsPc, dnsResult,
          daemon, tests, daemonPc, testIdx, retries, daemonResult, sigChan, tickerC, pidFile,
          cycles, attempts, waits, cycleOutput, stopped,
          testHistory, clock, callerPc, callerReq, started, deleted,
          echoMech, echoFamily, echoSeq, echoPc, echoElapsed, echoRequest, echoReply, echoEvent, echoResult,
          ckPacket, ckData, ckSum, ckPc>>

Impls == {"gui", "cli"}

(***************************************************************************)
(* Exact fractions standing for float64.                                   *)
(***************************************************************************)
RECURSIVE GCD(_, _)
GCD(a, b) == IF b = 0 THEN a ELSE GCD(b, a % b)

Abs(x) == IF x < 0 THEN -x ELSE x

Frac(n, d) ==
    LET g == GCD(Abs(n), Abs(d))
    IN IF n = 0 THEN <<0, 1>> ELSE <<n \div g, d \div g>>

FracZero == <<0, 1>>

FracMul(a, b) ==
    LET g1 == GCD(Abs(a[1]), b[2])
        g2 == GCD(Abs(b[1]), a[2])
    IN IF a[1] = 0 \/ b[1] = 0 THEN FracZero
       ELSE Frac((a[1] \div g1) * (b[1] \div g2), (a[2] \div g2) * (b[2] \div g1))

FracDiv(a, b) == FracMul(a, <<b[2], b[1]>>)

FracAdd(a, b) ==
    LET g == GCD(a[2], b[2])
    IN Frac(a[1] * (b[2] \div g) + b[1] * (a[2] \div g), (a[2] \div g) * b[2])

FracSub(a, b) == FracAdd(a, <<-b[1], b[2]>>)

FracGt(a, b) == a[1] * b[2] > b[1] * a[2]

FracEq(a, b) == a[1] * b[2] = b[1] * a[2]

(***************************************************************************)
(* PingResult and Statistics.                                              *)
(***************************************************************************)
\* Error = "" stands for a nil error.
PingOk(latency) == [Success |-> TRUE, Latency |-> latency, Error |-> ""]

PingFail(err) == [Success |-> FALSE, Latency |-> 0, Error |-> err]

ZeroStats ==
    [Sent |-> 0, Received |-> 0, Lost |-> 0, Min |-> 0, Max |-> 0, Avg |-> 0,
     StdDev |-> 0, Jitter |-> 0, Latencies |-> <<>>, SuccessRate |-> FracZero]

RECURSIVE Insert(_, _)
Insert(x, s) ==
    IF s = <<>> THEN <<x>>
    ELSE IF x < Head(s) THEN <<x>> \o s
    ELSE <<Head(s)>> \o Insert(x, Tail(s))

\* sort.Slice(latencies, func(i, j) bool { return latencies[i] < latencies[j] })
RECURSIVE SortAsc(_)
SortAsc(s) == IF s = <<>> THEN <<>> ELSE Insert(Head(s), SortAsc(Tail(s)))

RECURSIVE SumSeq(_)
SumSeq(s) == IF s = <<>> THEN 0 ELSE Head(s) + SumSeq(Tail(s))

\* time.Duration(math.Sqrt(x)): the square root truncated to an integer.
ISqrt(n) == CHOOSE k \in 0..n : k * k <= n /\ (k + 1) * (k + 1) > n

\* the successful latencies, in arrival order
SuccessLatencies(results) ==
    LET ok == SelectSeq(results, LAMBDA r : r.Success)
    IN [k \in 1..Len(ok) |-> ok[k].Latency]

\* A count that forgets to subtract the successes from the losses.
countResultsLostIsSent(results) ==
    [Sent |-> Len(results), Received |-> Len(SuccessLatencies(results)),
     Lost |-> Len(results)]

\* for _, result := range results { Sent++; if Success { Received++; append } }
\* stats.Lost = stats.Sent - stats.Received
countResults(results) ==
    LET received == Len(SuccessLatencies(results))
    IN [Sent |-> Len(results), Received |-> received, Lost |-> Len(results) - received]

\* A reduction without the early return, whose running minimum starts at a
\* sentinel that survives when nothing succeeded.
durationStatsSentinelMin(unsorted) ==
    LET n == Len(unsorted)
        latencies == SortAsc(unsorted)
        avg == IF n = 0 THEN 0 ELSE SumSeq(latencies) \div n
    IN [Latencies |-> latencies,
        Min |-> IF n = 0 THEN 2147483647 ELSE latencies[1],
        Max |-> IF n = 0 THEN 0 ELSE latencies[n],
        Avg |-> avg,
        StdDev |-> 0,
        Jitter |-> 0]

\* A reduction that takes the jitter over the latencies in arrival order.
durationStatsArrivalOrderJitter(unsorted) ==
    LET n == Len(unsorted)
        latencies == SortAsc(unsorted)
        avg == SumSeq(latencies) \div n
        sumsq == SumSeq([k \in 1..n |-> (latencies[k] - avg) * (latencies[k] - avg)])
        jitterSum == SumSeq([k \in 1..(n - 1) |-> Abs(unsorted[k + 1] - unsorted[k])])
    IN IF n = 0
       THEN [Latencies |-> <<>>, Min |-> 0, Max |-> 0, Avg |-> 0, StdDev |-> 0, Jitter |-> 0]
       ELSE [Latencies |-> latencies,
             Min |-> latencies[1],
             Max |-> latencies[n],
             Avg |-> avg,
             StdDev |-> ISqrt(sumsq \div n),
             Jitter |-> IF n > 1 THEN jitterSum \div (n - 1) ELSE 0]

\* if len(latencies) == 0 { return stats } and the reduction after it
durationStats(unsorted) ==
    LET n == Len(unsorted)
        latencies == SortAsc(unsorted)
        avg == SumSeq(latencies) \div n
        sumsq == SumSeq([k \in 1..n |-> (latencies[k] - avg) * (latencies[k] - avg)])
        jitterSum == SumSeq([k \in 1..(n - 1) |-> Abs(latencies[k + 1] - latencies[k])])
    IN IF n = 0
       THEN [Latencies |-> <<>>, Min |-> 0, Max |-> 0, Avg |-> 0, StdDev |-> 0, Jitter |-> 0]
       ELSE [Latencies |-> latencies,
             Min |-> latencies[1],
             Max |-> latencies[n],
             Avg |-> avg,
             StdDev |-> ISqrt(sumsq \div n),
             Jitter |-> IF n > 1 THEN jitterSum \div (n - 1) ELSE 0]

\* Only the GUI engine stores SuccessRate (after the early return); main.go's
\* callers compute it when they print.
calculateStats(engine, results) ==
    LET c == countResults(results)
        d == durationStats(SuccessLatencies(results))
    IN [Sent |-> c.Sent, Received |-> c.Received, Lost |-> c.Lost,
        Min |-> d.Min, Max |-> d.Max, Avg |-> d.Avg, StdDev |-> d.StdDev,
        Jitter |-> d.Jitter, Latencies |-> d.Latencies,
        SuccessRate |-> IF engine = "gui" /\ c.Received > 0
                        THEN Frac(c.Received * 100, c.Sent) ELSE FracZero]

(***************************************************************************)
(* ComparisonResult and the comparison scores.                             *)
(***************************************************************************)
CompareKinds == {"TCP/UDP", "ICMP", "HTTP", "DNS"}

StatSlots ==
    {"TCPv4Stats", "TCPv6Stats", "UDPv4Stats", "UDPv6Stats", "ICMPv4Stats",
     "ICMPv6Stats", "HTTPv4Stats", "HTTPv6Stats", "DNSv4Stats", "DNSv6Stats"}

\* A fresh ComparisonResult: no statistics recorded, scores 0, no winner.
NewComparison ==
    [stats |-> [slot \in StatSlots |-> ZeroStats],
     IPv4Score |-> FracZero, IPv6Score |-> FracZero, Winner |-> ""]

\* float64(Avg.Nanoseconds()) / 1e6
NsPerMs == 1000000

\* if Received > 0 { successRate := Received / Sent
\*                   avgLatencyMs := Avg.Nanoseconds() / 1e6
\*                   score = successRate * (1000 / avgLatencyMs) }
protocolScore(st) ==
    IF st.Received > 0
    THEN LET successRate == Frac(st.Received, st.Sent)
             avgLatencyMs == Frac(st.Avg, NsPerMs)
         IN FracMul(successRate, FracDiv(<<1000, 1>>, avgLatencyMs))
    ELSE FracZero

\* main.go calculateDNSComparisonScores: success4 := Received / Sent * 100
protocolScorePercent(st) ==
    IF st.Received > 0
    THEN LET success == Frac(st.Received * 100, st.Sent)
         IN FracMul(success, FracDiv(<<1000, 1>>, Frac(st.Avg, NsPerMs)))
    ELSE FracZero

\* The winner decided with >= in the first comparison.
winnerOfNoTie(score4, score6) ==
    IF ~FracGt(score6, score4) THEN "IPv4" ELSE "IPv6"

\* if IPv4Score > IPv6Score { "IPv4" } else if IPv6Score > IPv4Score { "IPv6" }
\* else { "Tie" }
winnerOf(score4, score6) ==
    IF FracGt(score4, score6) THEN "IPv4"
    ELSE IF FracGt(score6, score4) THEN "IPv6"
    ELSE "Tie"

\* The TCP and UDP weights swapped.
weightedScoreSwapped(tcpScore, udpScore) ==
    FracAdd(FracMul(tcpScore, <<4, 10>>), FracMul(udpScore, <<6, 10>>))

\* (tcpScore * 0.6) + (udpScore * 0.4)
weightedScore(tcpScore, udpScore) ==
    FracAdd(FracMul(tcpScore, <<6, 10>>), FracMul(udpScore, <<4, 10>>))

withScores(cmp, score4, score6) ==
    [cmp EXCEPT !.IPv4Score = score4, !.IPv6Score = score6,
                !.Winner = winnerOf(score4, score6)]

calculateComparisonScores(engine, cmp) ==
    withScores(cmp,
        weightedScore(protocolScore(cmp.stats["TCPv4Stats"]),
                      protocolScore(cmp.stats["UDPv4Stats"])),
        weightedScore(protocolScore(cmp.stats["TCPv6Stats"]),
                      protocolScore(cmp.stats["UDPv6Stats"])))

calculateICMPComparisonScores(engine, cmp) ==
    withScores(cmp, protocolScore(cmp.stats["ICMPv4Stats"]),
                    protocolScore(cmp.stats["ICMPv6Stats"]))

calculateHTTPComparisonScores(engine, cmp) ==
    withScores(cmp, protocolScore(cmp.stats["HTTPv4Stats"]),
                    protocolScore(cmp.stats["HTTPv6Stats"]))

calculateDNSComparisonScores(engine, cmp) ==
    IF engine = "cli"
    THEN withScores(cmp, protocolScorePercent(cmp.stats["DNSv4Stats"]),
                         protocolScorePercent(cmp.stats["DNSv6Stats"]))
    ELSE withScores(cmp, protocolScore(cmp.stats["DNSv4Stats"]),
                         protocolScore(cmp.stats["DNSv6Stats"]))

calculateScores(engine, kind, cmp) ==
    CASE kind = "TCP/UDP" -> calculateComparisonScores(engine, cmp)
      [] kind = "ICMP" -> calculateICMPComparisonScores(engine, cmp)
      [] kind = "HTTP" -> calculateHTTPComparisonScores(engine, cmp)
      [] kind = "DNS" -> calculateDNSComparisonScores(engine, cmp)

\* the statistics slots a comparison of this kind fills, as <<IPv4, IPv6>>
PrimarySlots(kind) ==
    CASE kind = "TCP/UDP" -> <<"TCPv4Stats", "TCPv6Stats">>
      [] kind = "ICMP" -> <<"ICMPv4Stats", "ICMPv6Stats">>
      [] kind = "HTTP" -> <<"HTTPv4Stats", "HTTPv6Stats">>
      [] kind = "DNS" -> <<"DNSv4Stats", "DNSv6Stats">>

(***************************************************************************)
(* SpecStats: calculateStats applied to every bounded result sequence.     *)
(***************************************************************************)
(***************************************************************************)
(* The ICMP probe and its fallback chain.                                  *)
(***************************************************************************)
Families == {"4", "6"}

\* the mechanisms: unprivileged datagram ICMP socket, raw ICMP socket, TCP connect
Mechanisms == {"unpriv", "raw", "tcp"}

\* What one mechanism returns.  An error is kept as the errno text it carries;
\* the prefixes fmt.Errorf adds ("error creating IPv4 raw socket: ...") hold
\* neither of the two phrases the fallback looks for.
ErrorTexts == {"operation not permitted", "permission denied", "network is unreachable",
               "timeout", "no such host", "send: operation not permitted"}

Outcomes == {"ok"} \cup ErrorTexts

IcmpLatency == 10 * NsPerMs

mechanismResult(outcome) ==
    IF outcome = "ok" THEN PingOk(IcmpLatency) ELSE PingFail(outcome)

\* Outcomes of a socket mechanism that are reached only through
\* sendICMPv4Unprivileged / sendICMPv4Raw (and the IPv6 twins): the socket was
\* created and the target resolved.  The other errors are returned before.
\* ("send: operation not permitted": the Write or Sendto is refused, as by a
\* packet filter.)
SendOutcomes == {"ok", "timeout", "network is unreachable", "send: operation not permitted"}

\* Outcomes after which the mechanism holds a socket or connection:
\* fd, err := syscall.Socket(...); if err != nil { return ... }
\* conn, err := dialer.Dial(network, address); if err != nil { return ... }
socketCreated(mech, outcome) ==
    IF mech = "tcp" THEN outcome = "ok"
    ELSE outcome \notin {"operation not permitted", "permission denied"}

\* A return that leaves the socket as it is.
closeLeftOut(open, mech) == open

\* defer syscall.Close(fd) / defer conn.Close(): run when the mechanism
\* returns, and when a panic unwinds it
deferredClose(open, mech) == open \ {mech}

\* flag -s default 64; the sizes tried: no payload, 7 bytes, 8 bytes, the default
DefaultSize == 64
PayloadSizes == {0, 7, 8, DefaultSize}

\* packet := make([]byte, 8+lt.size);
\* binary.BigEndian.PutUint64(packet[8:16], ...) panics (slice bounds out of
\* range) when the packet is shorter than 16 bytes
sendPanics(size, outcome) == outcome \in SendOutcomes /\ 8 + size < 16

\* strings.Contains(result.Error.Error(), phrase)
Contains(err, phrase) == err = phrase \/ err = "send: " \o phrase

\* tester.go: "operation not permitted" || "permission denied"
\* main.go:   "operation not permitted" only
permissionDenied(engine, err) ==
    IF engine = "gui"
    THEN Contains(err, "operation not permitted") \/ Contains(err, "permission denied")
    ELSE Contains(err, "operation not permitted")

\* the first mechanism testICMPv4/6 tries: main.go skips the unprivileged socket
firstMechanism(engine) == IF engine = "gui" THEN "unpriv" ELSE "raw"

\* _, err := syscall.Write(fd, packet) / syscall.Sendto(fd, packet, 0, addr):
\* one request, written once the socket exists and the packet has been built
echoRequests(size, outcome) ==
    IF outcome \in SendOutcomes /\ ~sendPanics(size, outcome) THEN 1 ELSE 0

\* A chain that goes back to the raw socket when it was refused.
fallbackRetriesRaw(engine, err) ==
    IF permissionDenied(engine, err) THEN "raw" ELSE "returned"

\* if <permission denied> { return lt.testTCPConnect(...) }; return result
fallbackAfterRaw(engine, err) ==
    IF permissionDenied(engine, err) THEN "tcp" ELSE "returned"

IcmpOff ==
    /\ icmpFamily = "4"
    /\ icmpEnv = [m \in Mechanisms |-> "ok"]
    /\ icmpSize = DefaultSize
    /\ icmpPc = "off"
    /\ icmpAttempts = <<>>
    /\ icmpResult = PingFail("")
    /\ icmpEchoes = [m \in Mechanisms |-> 0]
    /\ icmpOpen = {}
    /\ icmpSockets = 0

\* The first step of a mechanism whose socket can be created:
\* fd, err := syscall.Socket(...) / conn, err := dialer.Dial(network, address)
ICMPOpenSocket ==
    /\ icmpPc \in Mechanisms
    /\ icmpPc \notin icmpOpen
    /\ socketCreated(icmpPc, icmpEnv[icmpPc])
    /\ icmpOpen' = icmpOpen \cup {icmpPc}
    /\ icmpSockets' = icmpSockets + 1
    /\ UNCHANGED <<impl, icmpFamily, icmpEnv, icmpSize, icmpPc, icmpAttempts, icmpResult,
                   icmpEchoes>>
    /\ UNCHANGED notIcmpVars

\* result := lt.tryUnprivilegedICMPv4(seq); if result.Success { return result }
\* if <permission denied> { ... raw ... }
\* icmpPc = "panic": a run-time panic is unwinding the probe's callers
ICMPTryUnprivileged ==
    /\ icmpPc = "unpriv"
    /\ socketCreated("unpriv", icmpEnv["unpriv"]) => "unpriv" \in icmpOpen
    /\ icmpOpen' = deferredClose(icmpOpen, "unpriv")
    /\ icmpAttempts' = Append(icmpAttempts, "unpriv")
    /\ icmpEchoes' = [icmpEchoes EXCEPT !["unpriv"] = @ + echoRequests(icmpSize, icmpEnv["unpriv"])]
    /\ IF sendPanics(icmpSize, icmpEnv["unpriv"])
       THEN icmpPc' = "panic" /\ UNCHANGED icmpResult
       ELSE /\ icmpResult' = mechanismResult(icmpEnv["unpriv"])
            /\ icmpPc' = IF icmpResult'.Success THEN "returned"
                         ELSE IF permissionDenied(impl, icmpResult'.Error) THEN "raw"
                         ELSE "check"
    /\ UNCHANGED <<impl, icmpFamily, icmpEnv, icmpSize, icmpSockets>>
    /\ UNCHANGED notIcmpVars

\* result = lt.tryRawICMPv4(seq); if result.Success { return result }
ICMPTryRaw ==
    /\ icmpPc = "raw"
    /\ socketCreated("raw", icmpEnv["raw"]) => "raw" \in icmpOpen
    /\ icmpOpen' = deferredClose(icmpOpen, "raw")
    /\ icmpAttempts' = Append(icmpAttempts, "raw")
    /\ icmpEchoes' = [icmpEchoes EXCEPT !["raw"] = @ + echoRequests(icmpSize, icmpEnv["raw"])]
    /\ IF sendPanics(icmpSize, icmpEnv["raw"])
       THEN icmpPc' = "panic" /\ UNCHANGED icmpResult
       ELSE /\ icmpResult' = mechanismResult(icmpEnv["raw"])
            /\ icmpPc' = IF icmpResult'.Success THEN "returned" ELSE "check"
    /\ UNCHANGED <<impl, icmpFamily, icmpEnv, icmpSize, icmpSockets>>
    /\ UNCHANGED notIcmpVars

\* if <permission denied> { return lt.testTCPConnect(...) }; return result
ICMPFallbackCheck ==
    /\ icmpPc = "check"
    /\ icmpPc' = fallbackAfterRaw(impl, icmpResult.Error)
    /\ UNCHANGED <<impl, icmpFamily, icmpEnv, icmpSize, icmpAttempts, icmpResult, icmpEchoes,
                   icmpOpen, icmpSockets>>
    /\ UNCHANGED notIcmpVars

\* return lt.testTCPConnect("tcp4", lt.target4, seq)
ICMPTryTCP ==
    /\ icmpPc = "tcp"
    /\ socketCreated("tcp", icmpEnv["tcp"]) => "tcp" \in icmpOpen
    /\ icmpOpen' = deferredClose(icmpOpen, "tcp")
    /\ icmpAttempts' = Append(icmpAttempts, "tcp")
    /\ icmpResult' = mechanismResult(icmpEnv["tcp"])
    /\ icmpPc' = "returned"
    /\ UNCHANGED <<impl, icmpFamily, icmpEnv, icmpSize, icmpEchoes, icmpSockets>>
    /\ UNCHANGED notIcmpVars

(***************************************************************************)
(* A tester and the operations run on it.                                  *)
(*                                                                         *)
(* gui: a LatencyTester built by NewTester, on which RunTCPTest,           *)
(*      RunUDPTest, RunICMPTest, RunHTTPTest, RunDNSTest and               *)
(*      RunCompareTest(protocol) may be called one after another.          *)
(* cli: one process: func main builds the tester from the flags, runs the  *)
(*      single test or the comparison, prints (-json) and exits.           *)
(***************************************************************************)
Protocols == {"tcp", "udp", "icmp", "http", "dns"}

\* Mode flags set without the TCP flag ever being cleared.
onlyModeKeepsTcp(p) ==
    [tcpMode |-> TRUE, udpMode |-> p = "udp", icmpMode |-> p = "icmp",
     httpMode |-> p = "http", dnsMode |-> p = "dns"]

\* lt.tcpMode = true; lt.udpMode = false; lt.icmpMode = false; ...
onlyMode(p) ==
    [tcpMode |-> p = "tcp", udpMode |-> p = "udp", icmpMode |-> p = "icmp",
     httpMode |-> p = "http", dnsMode |-> p = "dns"]

\* a group of assignments to fields of a struct
assign(rec, set) == [f \in DOMAIN rec |-> IF f \in DOMAIN set THEN set[f] ELSE rec[f]]

NoChange == [f \in {} |-> FALSE]

DefaultTarget4 == "8.8.8.8"
DefaultTarget6 == "2001:4860:4860::8888"

\* The hostnames of the model and what net.LookupIP answers for each.
Hostnames ==
    {"dual.example", "v4only.example", "v6only.example", "nxdomain.example",
     "norecords.example"}

LookupIP(hostname) ==
    CASE hostname = "dual.example" ->
           [err |-> "", ips |-> <<[v4 |-> FALSE, ip |-> "2001:db8::1"],
                                  [v4 |-> TRUE, ip |-> "192.0.2.1"],
                                  [v4 |-> TRUE, ip |-> "192.0.2.2"],
                                  [v4 |-> FALSE, ip |-> "2001:db8::2"]>>]
      [] hostname = "v4only.example" ->
           [err |-> "", ips |-> <<[v4 |-> TRUE, ip |-> "192.0.2.1"]>>]
      [] hostname = "v6only.example" ->
           [err |-> "", ips |-> <<[v4 |-> FALSE, ip |-> "2001:db8::1"]>>]
      [] hostname = "norecords.example" -> [err |-> "", ips |-> <<>>]
      [] OTHER -> [err |-> "no such host", ips |-> <<>>]

\* for _, ip := range ips { if ipv4 == "" && ip.To4() != nil { ipv4 = ip.String() } ... }
RECURSIVE firstOfFamily(_, _)
firstOfFamily(ips, v4) ==
    IF ips = <<>> THEN ""
    ELSE IF Head(ips).v4 = v4 THEN Head(ips).ip
    ELSE firstOfFamily(Tail(ips), v4)

resolveHostname(hostname) ==
    LET answer == LookupIP(hostname)
        ipv4 == firstOfFamily(answer.ips, TRUE)
        ipv6 == firstOfFamily(answer.ips, FALSE)
    IN IF answer.err # "" THEN [ipv4 |-> "", ipv6 |-> "", err |-> answer.err]
       ELSE IF ipv4 = "" /\ ipv6 = ""
            THEN [ipv4 |-> "", ipv6 |-> "", err |-> "no A or AAAA records found"]
       ELSE [ipv4 |-> ipv4, ipv6 |-> ipv6, err |-> ""]

\* A family check that only looks for the A record.
missingFamilyIPv4Only(r) == r.ipv4 = ""

\* if ipv4 == "" || ipv6 == "" { ... cannot perform comparison }
missingFamily(r) == r.ipv4 = "" \/ r.ipv6 = ""

\* the test configuration a tester is built from
NewTester(cfg) ==
    [target4 |-> cfg.target4, target6 |-> cfg.target6, hostname |-> cfg.hostname,
     count |-> cfg.count, interval |-> cfg.interval, timeout |-> cfg.timeout,
     ipv4Only |-> cfg.ipv4Only, ipv6Only |-> cfg.ipv6Only,
     tcpMode |-> FALSE, udpMode |-> FALSE, icmpMode |-> FALSE, httpMode |-> FALSE,
     dnsMode |-> FALSE]

toTestConfig(t) ==
    [target4 |-> t.target4, target6 |-> t.target6, hostname |-> t.hostname,
     count |-> t.count, interval |-> t.interval, timeout |-> t.timeout,
     ipv4Only |-> t.ipv4Only, ipv6Only |-> t.ipv6Only]

\* TestConfig{Count: lt.count, Interval: lt.interval, Timeout: lt.timeout, ...}
jsonTestConfig(t) == [count |-> t.count, interval |-> t.interval, timeout |-> t.timeout]

\* if lt.tcpMode {..} else if lt.udpMode {..} else if lt.httpMode {..}
\* else if lt.dnsMode {..} else if lt.icmpMode {..} else { default TCP }
probeProtocol(t) ==
    IF t.tcpMode THEN "tcp"
    ELSE IF t.udpMode THEN "udp"
    ELSE IF t.httpMode THEN "http"
    ELSE IF t.dnsMode THEN "dns"
    ELSE IF t.icmpMode THEN "icmp"
    ELSE "tcp"

\* runCompareMode: if lt.dnsMode {..} if lt.icmpMode {..} if lt.httpMode {..}
compareKind(t) ==
    IF t.dnsMode THEN "DNS"
    ELSE IF t.icmpMode THEN "ICMP"
    ELSE IF t.httpMode THEN "HTTP"
    ELSE "TCP/UDP"

\* The path to the target over one family: every probe answered, none
\* answered, or every second one answered.
PathStates == {"up", "down", "lossy"}

\* round-trip time of an answered probe, in milliseconds
RttMs(proto, family) ==
    CASE proto = "tcp" -> IF family = "4" THEN 15 ELSE 12
      [] proto = "udp" -> IF family = "4" THEN 25 ELSE 20
      [] OTHER -> IF family = "4" THEN 10 ELSE 25

\* what testTCPConnect / testUDPConnect / testHTTP / testDNS / testICMPv4/6
\* hand back for one probe
probeResult(path, proto, family, seq) ==
    IF path[family] = "up" \/ (path[family] = "lossy" /\ seq % 2 = 0)
    THEN PingOk(RttMs(proto, family) * NsPerMs)
    ELSE PingFail("i/o timeout")

\* A loop that sleeps after every probe, the last one included.
sleepsAfterEveryProbe(index, count) == index < count

\* if i < lt.count-1 { time.Sleep(lt.interval) }
sleepsAfter(index, count) == index < count - 1

\* A loop that keeps only the probes that succeeded.
appendResultSkipsFailures(results, result) ==
    IF result.Success THEN Append(results, result) ELSE results

\* lt.results4 = append(lt.results4, result)
appendResult(results, result) == Append(results, result)

\* One call of testIPv4 / testIPv6 by the operation, with the statements
\* that precede it: the fields assigned, the result lists set to nil, and
\* the field of the result that receives the statistics ("" for none).
Phase(family, set, reset, slot) ==
    [family |-> family, set |-> set, reset |-> reset, slot |-> slot]

CompareCount == 10

kindProtocol(kind) ==
    CASE kind = "ICMP" -> "icmp" [] kind = "HTTP" -> "http" [] kind = "DNS" -> "dns"
      [] OTHER -> "tcp"

\* RunTCPTest .. RunDNSTest: if !lt.ipv6Only && lt.target4 != "" { testIPv4 } ...
\* func main: if !*ipv4Only { testIPv6 }; if !*ipv6Only { testIPv4 }
singlePlan(engine, t) ==
    IF engine = "gui"
    THEN (IF ~t.ipv6Only /\ t.target4 # ""
          THEN <<Phase("4", NoChange, {}, "IPv4Results")>> ELSE <<>>)
         \o (IF ~t.ipv4Only /\ t.target6 # ""
             THEN <<Phase("6", NoChange, {}, "IPv6Results")>> ELSE <<>>)
    ELSE (IF ~t.ipv4Only THEN <<Phase("6", NoChange, {}, "")>> ELSE <<>>)
         \o (IF ~t.ipv6Only THEN <<Phase("4", NoChange, {}, "")>> ELSE <<>>)

\* runTCPUDPComparison, runICMPComparison, runHTTPComparison, runDNSComparison;
\* runCompareMode, runDNSCompareMode, runICMPCompareMode, runHTTPCompareMode
comparePlan(engine, kind, r) ==
    IF engine = "gui"
    THEN IF kind = "TCP/UDP"
         THEN <<Phase("4", onlyMode("tcp"), {"4"}, "TCPv4Stats"),
                Phase("6", NoChange, {"6"}, "TCPv6Stats"),
                Phase("4", [tcpMode |-> FALSE, udpMode |-> TRUE], {"4"}, "UDPv4Stats"),
                Phase("6", NoChange, {"6"}, "UDPv6Stats")>>
         ELSE <<Phase("4", onlyMode(kindProtocol(kind)), {"4"}, PrimarySlots(kind)[1]),
                Phase("6", NoChange, {"6"}, PrimarySlots(kind)[2])>>
    ELSE IF kind = "TCP/UDP"
         THEN <<Phase("6", [target6 |-> r.ipv6, tcpMode |-> TRUE, udpMode |-> FALSE,
                            dnsMode |-> FALSE], {}, "TCPv6Stats"),
                Phase("4", [target4 |-> r.ipv4], {}, "TCPv4Stats"),
                Phase("6", [tcpMode |-> FALSE, udpMode |-> TRUE], {"4", "6"}, "UDPv6Stats"),
                Phase("4", NoChange, {}, "UDPv4Stats")>>
         ELSE <<Phase("6", [target6 |-> r.ipv6], {}, PrimarySlots(kind)[2]),
                Phase("4", [target4 |-> r.ipv4], {"6"}, PrimarySlots(kind)[1])>>

\* the command line tool's settings for one comparison:
\* lt.count = 10 and the mode flags it switches off
compareSettings(kind) ==
    CASE kind = "TCP/UDP" -> [count |-> CompareCount]
      [] kind = "DNS" -> [count |-> CompareCount, tcpMode |-> FALSE, udpMode |-> FALSE]
      [] kind = "ICMP" -> [count |-> CompareCount, tcpMode |-> FALSE, udpMode |-> FALSE,
                           dnsMode |-> FALSE]
      [] kind = "HTTP" -> [count |-> CompareCount, tcpMode |-> FALSE, udpMode |-> FALSE,
                           icmpMode |-> FALSE, dnsMode |-> FALSE]

\* originalCount := lt.count; originalTcpMode := lt.tcpMode; ...
savedSettings(t, kind) == [f \in DOMAIN compareSettings(kind) |-> t[f]]

NoLocals == [ipv4 |-> "", ipv6 |-> "", original |-> NoChange]

NoProbe ==
    [proto |-> "", family |-> "", target |-> "", seq |-> 0, timeout |-> 0,
     returned |-> FALSE, result |-> PingFail("")]

NoOutput ==
    [ErrorMessage |-> "", TestConfig |-> [count |-> 0, interval |-> 0, timeout |-> 0],
     HasComparison |-> FALSE, Comparison |-> NewComparison,
     Results |-> {}, IPv4Results |-> ZeroStats, IPv6Results |-> ZeroStats]

NoOp == [mode |-> "none", protocol |-> ""]

resultsOf(family) == IF family = "4" THEN results4 ELSE results6

\* why a comparison cannot start, "" when it can
compareError(engine, t, r) ==
    IF engine = "gui" /\ t.hostname = "" THEN "hostname is required for comparison tests"
    ELSE IF r.err # "" THEN "failed to resolve hostname"
    ELSE IF missingFamily(r) THEN "both IPv4 and IPv6 addresses are required for comparison"
    ELSE ""

NoAccess == [kind |-> "none", mu |-> FALSE]

\* Is lt.mu held during an access of this kind to a result list?
\* "append": lt.mu.Lock(); lt.results4 = append(lt.results4, result); lt.mu.Unlock()
\* "reset":  lt.results4 = make([]PingResult, 0, lt.count); lt.results4 = nil
\* "read":   lt.calculateStats(lt.results4); len(lt.results4)
muHeld(kind) == kind = "append"

Access(kind) == [kind |-> kind, mu |-> muHeld(kind)]

FreshHistory ==
    /\ listAccess' = NoAccess
    /\ seqLog' = <<>>
    /\ sleeps' = 0
    /\ phaseLog' = <<>>
    /\ i' = 0
    /\ cur' = NoProbe
    /\ comparison' = NewComparison

OtherSpecsIdle == UNCHANGED notRunVars

\* RunTCPTest, RunUDPTest, RunICMPTest, RunHTTPTest, RunDNSTest up to the first probe
RunProtocolTest(p) ==
    /\ impl = "gui"
    /\ pc \in {"idle", "done"}
    /\ op' = [mode |-> "single", protocol |-> p]
    /\ out' = [NoOutput EXCEPT !.TestConfig = toTestConfig(lt)]
    /\ lt' = assign(lt, onlyMode(p))
    /\ locals' = NoLocals
    /\ plan' = singlePlan(impl, lt)
    /\ pc' = IF plan' = <<>> THEN "return" ELSE "call"
    /\ FreshHistory
    /\ UNCHANGED <<impl, net, results4, results6>>
    /\ UNCHANGED config
    /\ OtherSpecsIdle

\* RunCompareTest(protocol) up to the first probe, or to its early return
RunCompareTest(kind) ==
    /\ impl = "gui"
    /\ pc \in {"idle", "done"}
    /\ op' = [mode |-> "compare", protocol |-> kind]
    /\ LET r == resolveHostname(lt.hostname)
           error == compareError(impl, lt, r)
       IN /\ out' = [NoOutput EXCEPT !.TestConfig = toTestConfig(lt),
                                     !.ErrorMessage = error]
          /\ IF error # ""
             THEN /\ pc' = "done"
                  /\ plan' = <<>>
                  /\ locals' = NoLocals
                  /\ UNCHANGED lt
             ELSE /\ pc' = "call"
                  /\ plan' = comparePlan(impl, kind, r)
                  /\ locals' = [NoLocals EXCEPT !.ipv4 = r.ipv4, !.ipv6 = r.ipv6]
                  /\ lt' = [lt EXCEPT !.target4 = r.ipv4, !.target6 = r.ipv6]
    /\ FreshHistory
    /\ UNCHANGED <<impl, net, results4, results6>>
    /\ UNCHANGED config
    /\ OtherSpecsIdle

\* func main after the flags are parsed: the single test up to the first probe,
\* or runCompareMode up to the first probe or to log.Fatal
Main ==
    /\ impl = "cli"
    /\ pc = "idle"
    /\ IF lt.hostname = ""
       THEN /\ op' = [mode |-> "single", protocol |-> probeProtocol(lt)]
            /\ plan' = singlePlan(impl, lt)
            /\ pc' = IF plan' = <<>> THEN "return" ELSE "call"
            /\ out' = NoOutput
            /\ locals' = NoLocals
            /\ UNCHANGED lt
       ELSE LET kind == compareKind(lt)
                r == resolveHostname(lt.hostname)
                error == compareError(impl, lt, r)
            IN /\ op' = [mode |-> "compare", protocol |-> kind]
               /\ out' = [NoOutput EXCEPT !.ErrorMessage = error]
               /\ IF error # ""
                  THEN /\ pc' = "done"
                       /\ plan' = <<>>
                       /\ locals' = NoLocals
                       /\ UNCHANGED lt
                  ELSE /\ pc' = "call"
                       /\ plan' = comparePlan(impl, kind, r)
                       /\ locals' = [ipv4 |-> r.ipv4, ipv6 |-> r.ipv6,
                                     original |-> savedSettings(lt, kind)]
                       /\ lt' = assign(lt, compareSettings(kind))
    /\ FreshHistory
    /\ UNCHANGED <<impl, net, results4, results6>>
    /\ UNCHANGED config
    /\ OtherSpecsIdle

\* A phase that goes on with the list the phase before has left.
startResultsKeepsList(results, cleared) == results

\* lt.results4 = nil; lt.results4 = make([]PingResult, 0, lt.count)
startResults(results, cleared) == IF cleared THEN <<>> ELSE results

\* the statements before a call of testIPv4 / testIPv6, and its first line:
\* lt.results4 = make([]PingResult, 0, lt.count)
EnterTestIP ==
    /\ pc = "call"
    /\ LET ph == Head(plan)
       IN /\ lt' = assign(lt, ph.set)
          /\ results4' = startResults(results4, ph.family = "4" \/ "4" \in ph.reset)
          /\ results6' = startResults(results6, ph.family = "6" \/ "6" \in ph.reset)
    /\ i' = 0
    /\ seqLog' = <<>>
    /\ sleeps' = 0
    /\ pc' = "loop"
    /\ UNCHANGED <<impl, net, op, locals, plan, cur, comparison, out, phaseLog>>
    /\ listAccess' = Access("reset")
    /\ UNCHANGED config
    /\ OtherSpecsIdle

\* for i := 0; i < lt.count; i++ { result = lt.testTCPConnect("tcp4", lt.target4, i+1) ...
StartProbe ==
    /\ pc = "loop"
    /\ i < lt.count
    /\ LET family == Head(plan).family
       IN cur' = [proto |-> probeProtocol(lt), family |-> family,
                  target |-> IF family = "4" THEN lt.target4 ELSE lt.target6,
                  seq |-> i + 1, timeout |-> lt.timeout,
                  returned |-> FALSE, result |-> PingFail("")]
    /\ seqLog' = Append(seqLog, i + 1)
    /\ pc' = "probe"
    /\ UNCHANGED <<impl, lt, net, results4, results6, op, locals, plan, i, comparison, out,
                   sleeps, phaseLog>>
    /\ UNCHANGED listAccess
    /\ UNCHANGED config
    /\ OtherSpecsIdle

\* the probe returns its PingResult
ProbeReturns ==
    /\ pc = "probe"
    /\ cur' = [cur EXCEPT !.returned = TRUE,
                          !.result = probeResult(net, cur.proto, cur.family, cur.seq)]
    /\ pc' = "append"
    /\ UNCHANGED <<impl, lt, net, results4, results6, op, locals, plan, i, comparison, out,
                   seqLog, sleeps, phaseLog>>
    /\ UNCHANGED listAccess
    /\ UNCHANGED config
    /\ OtherSpecsIdle

\* lt.mu.Lock(); lt.results4 = append(lt.results4, result); lt.mu.Unlock()
\* if i < lt.count-1 { time.Sleep } else the loop's i++
AppendResult ==
    /\ pc = "append"
    /\ IF cur.family = "4"
       THEN results4' = appendResult(results4, cur.result) /\ UNCHANGED results6
       ELSE results6' = appendResult(results6, cur.result) /\ UNCHANGED results4
    /\ IF sleepsAfter(i, lt.count)
       THEN pc' = "sleep" /\ UNCHANGED i
       ELSE pc' = "loop" /\ i' = i + 1
    /\ UNCHANGED <<impl, lt, net, op, locals, plan, cur, comparison, out,
                   seqLog, sleeps, phaseLog>>
    /\ listAccess' = Access("append")
    /\ UNCHANGED config
    /\ OtherSpecsIdle

\* time.Sleep(lt.interval) has elapsed; i++
IntervalSleep ==
    /\ pc = "sleep"
    /\ sleeps' = sleeps + 1
    /\ i' = i + 1
    /\ pc' = "loop"
    /\ UNCHANGED <<impl, lt, net, results4, results6, op, locals, plan, cur, comparison, out,
                   seqLog, phaseLog>>
    /\ UNCHANGED listAccess
    /\ UNCHANGED config
    /\ OtherSpecsIdle

\* the loop condition fails: testIPv4 / testIPv6 returns
ReturnFromTestIP ==
    /\ pc = "loop"
    /\ ~(i < lt.count)
    /\ pc' = "stats"
    /\ UNCHANGED <<impl, lt, net, results4, results6, op, locals, plan, i, cur, comparison,
                   out, seqLog, sleeps, phaseLog>>
    /\ UNCHANGED listAccess
    /\ UNCHANGED config
    /\ OtherSpecsIdle

\* stats := lt.calculateStats(lt.results4); result.IPv4Results = &stats
\* result.TCPv4Stats = lt.calculateStats(lt.results4)
RecordStats ==
    /\ pc = "stats"
    /\ LET ph == Head(plan)
           stats == calculateStats(impl, resultsOf(ph.family))
       IN /\ comparison' = IF op.mode = "compare"
                           THEN [comparison EXCEPT !.stats[ph.slot] = stats]
                           ELSE comparison
          /\ out' = IF op.mode = "single" /\ ph.slot # ""
                    THEN [out EXCEPT !.Results = @ \cup {ph.slot}, ![ph.slot] = stats]
                    ELSE out
          /\ phaseLog' = Append(phaseLog,
                                [family |-> ph.family, protocol |-> probeProtocol(lt),
                                 probes |-> Len(seqLog), sleeps |-> sleeps,
                                 interval |-> lt.interval, timeout |-> cur.timeout])
    /\ plan' = Tail(plan)
    /\ pc' = IF plan' = <<>> THEN "return" ELSE "call"
    /\ UNCHANGED <<impl, lt, net, results4, results6, op, locals, i, cur, seqLog, sleeps>>
    /\ listAccess' = Access("read")
    /\ UNCHANGED config
    /\ OtherSpecsIdle

\* printJSONResults: if !lt.ipv6Only && len(lt.results4) > 0 { stats4 := ...;
\* stats4.SuccessRate = float64(stats4.Received) / float64(stats4.Sent) * 100 }
jsonStats(results) ==
    LET stats == calculateStats("cli", results)
    IN [stats EXCEPT !.SuccessRate = Frac(stats.Received * 100, stats.Sent)]

\* the end of the operation: scores, restored settings, the value handed back
Return ==
    /\ pc = "return"
    /\ pc' = "done"
    /\ lt' = IF impl = "cli" /\ op.mode = "compare" THEN assign(lt, locals.original) ELSE lt
    /\ comparison' = IF op.mode = "compare"
                     THEN calculateScores(impl, op.protocol, comparison)
                     ELSE comparison
    /\ out' =
         IF op.mode = "compare"
         THEN [out EXCEPT !.HasComparison = TRUE, !.Comparison = comparison',
                          !.TestConfig = IF impl = "cli" THEN jsonTestConfig(lt') ELSE @]
         ELSE IF impl = "cli"
         THEN LET has4 == ~lt.ipv6Only /\ Len(results4) > 0
                  has6 == ~lt.ipv4Only /\ Len(results6) > 0
              IN [out EXCEPT !.TestConfig = jsonTestConfig(lt),
                             !.Results = (IF has4 THEN {"IPv4Results"} ELSE {})
                                         \cup (IF has6 THEN {"IPv6Results"} ELSE {}),
                             !.IPv4Results = IF has4 THEN jsonStats(results4) ELSE @,
                             !.IPv6Results = IF has6 THEN jsonStats(results6) ELSE @]
         ELSE out
    /\ UNCHANGED <<impl, net, results4, results6, op, locals, plan, i, cur,
                   seqLog, sleeps, phaseLog>>
    /\ listAccess' = IF impl = "cli" /\ op.mode = "single" THEN Access("read") ELSE listAccess
    /\ UNCHANGED config
    /\ OtherSpecsIdle

NoConfig ==
    [target4 |-> "", target6 |-> "", hostname |-> "", count |-> 0, interval |-> 0,
     timeout |-> 0, ipv4Only |-> FALSE, ipv6Only |-> FALSE]

RunOff ==
    /\ config = NoConfig
    /\ lt = NewTester(NoConfig)
    /\ net = [f \in Families |-> "up"]
    /\ results4 = <<>>
    /\ results6 = <<>>
    /\ op = NoOp
    /\ pc = "off"
    /\ locals = NoLocals
    /\ plan = <<>>
    /\ i = 0
    /\ cur = NoProbe
    /\ comparison = NewComparison
    /\ out = NoOutput
    /\ seqLog = <<>>
    /\ sleeps = 0
    /\ phaseLog = <<>>
    /\ listAccess = NoAccess

(***************************************************************************)
(* One DNS probe: testDNS and the four transports.                         *)
(***************************************************************************)
DNSProtocols == {"udp", "tcp", "dot", "doh"}

\* binary.BigEndian.PutUint16(headerBytes[0:2], header.ID)
PutUint16(v) == <<v \div 256, v % 256>>

\* binary.BigEndian.Uint16(response[0:2])
Uint16(b) == b[1] * 256 + b[2]

\* What the server and the network hand to the probe: a transport failure
\* (dial, write or read error), or a DNS message of some length whose first
\* two bytes are given (zero where the message is shorter); over DoH the
\* message is the body of a reply with an HTTP status.
TransportError == [kind |-> "error", status |-> 0, length |-> 0, head |-> <<0, 0>>]

DnsOff ==
    /\ dnsProtocol = "udp"
    /\ dnsQueryID = 0
    /\ dnsReply = TransportError
    /\ dnsPc = "off"
    /\ dnsResult = PingFail("")

DnsLatency == 20 * NsPerMs

\* response := make([]byte, 512); n, err := conn.Read(response)
\* a datagram longer than the buffer is cut to the buffer
udpBytesRead(reply) == IF reply.length > 512 THEN 512 ELSE reply.length

\* A check of the length alone.
validateResponseLengthOnly(n, head, queryPacket) ==
    IF n < 12 THEN PingFail("DNS response too short")
    ELSE PingOk(DnsLatency)

\* if n < 12 { too short }; responseID := Uint16(response[0:2]);
\* queryID := Uint16(queryPacket[0:2]); if responseID != queryID { ID mismatch }
validateResponse(n, head, queryPacket) ==
    IF n < 12 THEN PingFail("DNS response too short")
    ELSE IF Uint16(head) # Uint16(queryPacket) THEN PingFail("DNS response ID mismatch")
    ELSE PingOk(DnsLatency)

testDNSUDP(reply, queryPacket) ==
    IF reply.kind = "error" THEN PingFail("i/o timeout")
    ELSE validateResponse(udpBytesRead(reply), reply.head, queryPacket)

\* testDNSTCP and testDNSDoT: a two-byte length, then the message
\* if responseLength > 4096 { too large }
testDNSTCP(reply, queryPacket) ==
    IF reply.kind = "error" THEN PingFail("i/o timeout")
    ELSE IF reply.length > 4096 THEN PingFail("DNS response too large")
    ELSE validateResponse(reply.length, reply.head, queryPacket)

\* if resp.StatusCode != 200 { HTTP status error }; response := io.ReadAll(resp.Body)
testDNSDoH(reply, queryPacket) ==
    IF reply.kind = "error" THEN PingFail("i/o timeout")
    ELSE IF reply.status # 200 THEN PingFail("HTTP status")
    ELSE validateResponse(reply.length, reply.head, queryPacket)

\* switch lt.dnsProtocol { case "udp": .. default: unsupported DNS protocol }
testDNS(protocol, reply, queryID) ==
    LET queryPacket == PutUint16(queryID)
    IN CASE protocol = "udp" -> testDNSUDP(reply, queryPacket)
         [] protocol = "tcp" -> testDNSTCP(reply, queryPacket)
         [] protocol = "dot" -> testDNSTCP(reply, queryPacket)
         [] protocol = "doh" -> testDNSDoH(reply, queryPacket)
         [] OTHER -> PingFail("unsupported DNS protocol")

TestDNS ==
    /\ dnsPc = "call"
    /\ dnsResult' = testDNS(dnsProtocol, dnsReply, dnsQueryID)
    /\ dnsPc' = "returned"
    /\ UNCHANGED <<impl, dnsProtocol, dnsQueryID, dnsReply>>
    /\ UNCHANGED notDnsVars

(***************************************************************************)
(* The daemon: setConfigDefaults, runDaemon and runTestCycle.              *)
(***************************************************************************)
DefaultMaxRetries == 3

\* if config.Daemon.MaxRetries == 0 { config.Daemon.MaxRetries = 3 }
setConfigDefaults(d) ==
    [d EXCEPT !.MaxRetries = IF d.MaxRetries = 0 THEN DefaultMaxRetries ELSE d.MaxRetries]

\* var result DaemonResult
ZeroDaemonResult == [TestName |-> 0, Success |-> FALSE]

\* runSingleTest(testConfig): the result carries the test's name
DaemonResult(t, ok) == [TestName |-> t, Success |-> ok]

NoHistory == [t \in {} |-> <<>>]

DaemonOff ==
    /\ daemon = [MaxRetries |-> 0, StopOnFailure |-> FALSE, PidFile |-> FALSE]
    /\ tests = <<>>
    /\ daemonPc = "off"
    /\ testIdx = 0
    /\ retries = 0
    /\ daemonResult = ZeroDaemonResult
    /\ sigChan = FALSE
    /\ tickerC = FALSE
    /\ pidFile = FALSE
    /\ cycles = 0
    /\ attempts = NoHistory
    /\ waits = NoHistory
    /\ cycleOutput = NoHistory
    /\ stopped = FALSE

\* The select loop once the signal has been taken from sigChan.
afterSignalKeepsRunning == "select"

\* case sig := <-sigChan: ... return
afterSignal == "returned"

\* runTestCycle(config, outputWriter) is entered
EnterTestCycle ==
    /\ cycles' = cycles + 1
    /\ testIdx' = 1
    /\ daemonPc' = "range"
    /\ attempts' = [t \in 1..Len(tests) |-> <<>>]
    /\ waits' = [t \in 1..Len(tests) |-> 0]
    /\ cycleOutput' = [t \in 1..Len(tests) |-> <<>>]

\* runDaemon up to its loop: the PID file, the ticker, the initial cycle
DaemonStart ==
    /\ daemonPc = "start"
    /\ pidFile' = daemon.PidFile
    /\ EnterTestCycle
    /\ UNCHANGED <<impl, daemon, tests, retries, daemonResult, sigChan, tickerC, stopped>>
    /\ UNCHANGED notDaemonVars

\* for _, testConfig := range config.Tests { if !testConfig.Enabled { continue } ...
RangeTests ==
    /\ daemonPc = "range"
    /\ IF testIdx > Len(tests)
       THEN /\ daemonPc' = "select"
            /\ UNCHANGED <<testIdx, retries, daemonResult>>
       ELSE IF ~tests[testIdx].Enabled
       THEN /\ testIdx' = testIdx + 1
            /\ UNCHANGED <<daemonPc, retries, daemonResult>>
       ELSE /\ retries' = 0
            /\ daemonResult' = ZeroDaemonResult
            /\ daemonPc' = "for"
            /\ UNCHANGED testIdx
    /\ UNCHANGED <<impl, daemon, tests, sigChan, tickerC, pidFile, cycles, attempts, waits,
                   cycleOutput, stopped>>
    /\ UNCHANGED notDaemonVars

\* for retries <= config.Daemon.MaxRetries {
RetryLoop ==
    /\ daemonPc = "for"
    /\ daemonPc' = IF retries <= setConfigDefaults(daemon).MaxRetries THEN "attempt" ELSE "write"
    /\ UNCHANGED <<impl, daemon, tests, testIdx, retries, daemonResult, sigChan, tickerC, pidFile,
                   cycles, attempts, waits, cycleOutput, stopped>>
    /\ UNCHANGED notDaemonVars

\* result = runSingleTest(testConfig)
\* if result.Success || retries == config.Daemon.MaxRetries { break }
\* retries++; if retries <= config.Daemon.MaxRetries { time.Sleep(...) }
RunSingleTest ==
    /\ daemonPc = "attempt"
    /\ \E ok \in BOOLEAN :
         LET r == DaemonResult(testIdx, ok)
             max == setConfigDefaults(daemon).MaxRetries
         IN /\ daemonResult' = r
            /\ attempts' = [attempts EXCEPT ![testIdx] = Append(@, r)]
            /\ IF r.Success \/ retries = max
               THEN /\ daemonPc' = "write"
                    /\ UNCHANGED retries
               ELSE /\ retries' = retries + 1
                    /\ daemonPc' = IF retries + 1 <= max THEN "sleep" ELSE "for"
    /\ UNCHANGED <<impl, daemon, tests, testIdx, sigChan, tickerC, pidFile, cycles, waits,
                   cycleOutput, stopped>>
    /\ UNCHANGED notDaemonVars

\* time.Sleep(config.Daemon.RetryInterval)
RetrySleep ==
    /\ daemonPc = "sleep"
    /\ waits' = [waits EXCEPT ![testIdx] = @ + 1]
    /\ daemonPc' = "for"
    /\ UNCHANGED <<impl, daemon, tests, testIdx, retries, daemonResult, sigChan, tickerC, pidFile,
                   cycles, attempts, cycleOutput, stopped>>
    /\ UNCHANGED notDaemonVars

\* writeResult(outputWriter, result, ...)
\* if !result.Success && config.Daemon.StopOnFailure { log "Stopping daemon"; return }
WriteResult ==
    /\ daemonPc = "write"
    /\ cycleOutput' = [cycleOutput EXCEPT ![testIdx] = Append(@, daemonResult)]
    /\ IF ~daemonResult.Success /\ daemon.StopOnFailure
       THEN /\ stopped' = TRUE
            /\ daemonPc' = "select"
            /\ UNCHANGED testIdx
       ELSE /\ testIdx' = testIdx + 1
            /\ daemonPc' = "range"
            /\ UNCHANGED stopped
    /\ UNCHANGED <<impl, daemon, tests, retries, daemonResult, sigChan, tickerC, pidFile, cycles,
                   attempts, waits>>
    /\ UNCHANGED notDaemonVars

DaemonRunning == daemonPc \notin {"off", "start", "returned"}

\* case <-ticker.C: runTestCycle(config, outputWriter)
SelectTick ==
    /\ daemonPc = "select"
    /\ tickerC
    /\ tickerC' = FALSE
    /\ EnterTestCycle
    /\ UNCHANGED <<impl, daemon, tests, retries, daemonResult, sigChan, pidFile, stopped>>
    /\ UNCHANGED notDaemonVars

\* case sig := <-sigChan: return, and the deferred os.Remove(config.Daemon.PidFile)
SelectSignal ==
    /\ daemonPc = "select"
    /\ sigChan
    /\ sigChan' = FALSE
    /\ daemonPc' = afterSignal
    /\ pidFile' = IF afterSignal = "returned" THEN FALSE ELSE pidFile
    /\ UNCHANGED <<impl, daemon, tests, testIdx, retries, daemonResult, tickerC, cycles, attempts,
                   waits, cycleOutput, stopped>>
    /\ UNCHANGED notDaemonVars

(***************************************************************************)
(* The desktop application: App.RunTest and the history.                   *)
(***************************************************************************)
HistoryCap == 100

Callers == {1, 2}

\* HistoryEntry{ID: fmt.Sprintf("%d", time.Now().UnixNano()), Request: req, ...}
HistoryEntry(id, req) == [ID |-> id, Request |-> req]

\* testHistory: make([]HistoryEntry, 0, 100)
NewApp == <<>>

AppOff ==
    /\ testHistory = NewApp
    /\ clock = 0
    /\ callerPc = [c \in Callers |-> "off"]
    /\ callerReq = [c \in Callers |-> ""]
    /\ started = 0
    /\ deleted = 0

\* A history that is never cut.
addToHistoryUncapped(history, entry) == <<entry>> \o history

\* a.testHistory = append([]HistoryEntry{entry}, a.testHistory...)
\* if len(a.testHistory) > 100 { a.testHistory = a.testHistory[:100] }
addToHistory(history, entry) ==
    LET prepended == <<entry>> \o history
    IN IF Len(prepended) > HistoryCap THEN SubSeq(prepended, 1, HistoryCap) ELSE prepended

\* for i, entry := range a.testHistory { if entry.ID == id { remove i; return true } }
deleteHistoryEntry(history, id) ==
    IF \E k \in 1..Len(history) : history[k].ID = id
    THEN LET at == CHOOSE k \in 1..Len(history) :
                      /\ history[k].ID = id
                      /\ \A j \in 1..(k - 1) : history[j].ID # id
         IN SubSeq(history, 1, at - 1) \o SubSeq(history, at + 1, Len(history))
    ELSE history

\* The protocols RunTest's switch sends to a tester; any other name takes the
\* default branch, which builds an error result without probing.
RunsTester(protocol) == protocol \in {"tcp", "udp", "icmp", "http", "https", "dns", "compare"}

(***************************************************************************)
(* One echo request and the receive loop that waits for its reply.         *)
(***************************************************************************)
\* pid := os.Getpid() & 0xffff
Pid == 4242

\* uint16(seq), uint16(pid)
uint16(v) == v % 65536

EchoRequestType(family) == IF family = "4" THEN 8 ELSE 128
EchoReplyType(family) == IF family = "4" THEN 0 ELSE 129

\* packet[0] = 8; PutUint16(packet[4:6], uint16(pid)); PutUint16(packet[6:8], uint16(seq))
echoRequestPacket(family, seq) ==
    [type |-> EchoRequestType(family), id |-> PutUint16(uint16(Pid)),
     seq |-> PutUint16(uint16(seq))]

\* A received packet: n bytes read, the header length nibble of its first
\* byte (raw IPv4 sockets deliver the IP header, the others do not: 0), and
\* type, identifier and sequence bytes of the ICMP message that follows.
NoPacket == [n |-> 0, ihl |-> 0, type |-> 0, id |-> <<0, 0>>, seq |-> <<0, 0>>]

\* A comparison that takes any echo reply for the answer.
replyAcceptedAnySeq(mech, family, seq, reply) ==
    reply.n >= 8 /\ reply.type = EchoReplyType(family)

\* if n < 8 { continue }  (raw IPv4: if n < 28 ..; if n < ipHeaderLen+8 ..)
\* if reply[0] == 0 { if int(replySeq) == seq { success } }
\* (raw: if int(replyID) == pid && int(replySeq) == seq)
replyAccepted(mech, family, seq, reply) ==
    /\ IF mech = "raw" /\ family = "4"
       THEN reply.n >= 28 /\ reply.n >= reply.ihl * 4 + 8
       ELSE reply.n >= 8
    /\ reply.type = EchoReplyType(family)
    /\ mech = "raw" => Uint16(reply.id) = Pid
    /\ Uint16(reply.seq) = seq

EchoOff ==
    /\ echoMech = "raw"
    /\ echoFamily = "4"
    /\ echoSeq = 0
    /\ echoPc = "off"
    /\ echoElapsed = 0
    /\ echoRequest = NoPacket
    /\ echoReply = NoPacket
    /\ echoEvent = "none"
    /\ echoResult = PingFail("")

(***************************************************************************)
(* calculateChecksum.  A packet is the sequence of its bytes; data[k] of   *)
(* the code is data[k + 1] here.                                           *)
(***************************************************************************)
\* data[2] = 0; data[3] = 0
clearChecksumField(data) == [data EXCEPT ![3] = 0, ![4] = 0]

\* for i := 0; i < len(data)-1; i += 2 { sum += uint32(data[i])<<8 + uint32(data[i+1]) }
\* (sum is a uint32: it cannot wrap for a packet shorter than 131076 bytes,
\* and no packet longer than 65535 bytes fits an IP datagram)
RECURSIVE sumWords(_, _)
sumWords(data, k) ==
    IF k < Len(data) - 1
    THEN data[k + 1] * 256 + data[k + 2] + sumWords(data, k + 2)
    ELSE 0

\* A sum that leaves out the last byte of a packet of odd length.
leftOverIgnored(data) == 0

\* if len(data)%2 == 1 { sum += uint32(data[len(data)-1]) << 8 }
leftOver(data) == IF Len(data) % 2 = 1 THEN data[Len(data)] * 256 ELSE 0

\* for (sum >> 16) > 0 { sum = (sum & 0xffff) + (sum >> 16) }
RECURSIVE foldSum(_)
foldSum(sum) ==
    IF sum \div 65536 > 0 THEN foldSum((sum % 65536) + (sum \div 65536)) ELSE sum

\* return uint16(^sum)
calculateChecksum(data) ==
    LET cleared == clearChecksumField(data)
    IN [data |-> cleared,
        sum |-> 65535 - foldSum(sumWords(cleared, 0) + leftOver(cleared))]

ChecksumOff ==
    /\ ckPacket = <<>>
    /\ ckData = <<>>
    /\ ckSum = 0
    /\ ckPc = "off"

\* No winner line printed: before the report, or "Cannot compare".
NoWinnerLine == [winner |-> "", loserScore |-> FracZero, percent |-> ""]

\* scorePercent = ((winnerScore - loserScore) / loserScore) * 100; a float64
\* division by 0 gives +Inf
percentBetter(winnerScore, loserScore) ==
    IF loserScore[1] = 0 THEN "+Inf"
    ELSE FracMul(FracDiv(FracSub(winnerScore, loserScore), loserScore), <<100, 1>>)

winnerLineOf(winner, cmp) ==
    IF winner = "Tie" THEN [winner |-> "Tie", loserScore |-> FracZero, percent |-> ""]
    ELSE LET winnerScore == IF winner = "IPv4" THEN cmp.IPv4Score ELSE cmp.IPv6Score
             loserScore == IF winner = "IPv4" THEN cmp.IPv6Score ELSE cmp.IPv4Score
         IN [winner |-> winner, loserScore |-> loserScore,
             percent |-> percentBetter(winnerScore, loserScore)]

\* printComparisonResults: if result.Winner != "Tie" { scorePercent = ... }
\* printICMPComparisonResults (HTTP, DNS alike):
\*   if ICMPv4Stats.Received > 0 && ICMPv6Stats.Received > 0 {
\*       if IPv6Score > IPv4Score { percent := ... } else if IPv4Score > IPv6Score { ... }
\*   } else { "Cannot compare: One or both protocols failed completely" }
winnerLine(kind, cmp) ==
    IF kind = "TCP/UDP" THEN winnerLineOf(cmp.Winner, cmp)
    ELSE IF /\ cmp.stats[PrimarySlots(kind)[1]].Received > 0
            /\ cmp.stats[PrimarySlots(kind)[2]].Received > 0
    THEN winnerLineOf(winnerOf(cmp.IPv4Score, cmp.IPv6Score), cmp)
    ELSE NoWinnerLine

NothingPrinted == [p \in {} |-> 0]

\* percentiles := []int{50, 95, 99}
Percentiles == {50, 95, 99}

\* idx := int(float64(p)/100.0*float64(len(stats.Latencies))) - 1
\* if idx < 0 { idx = 0 }; if idx >= len(stats.Latencies) { idx = len - 1 }
\* (int() truncates; the index is 0-based)
percentileIndex(p, n) ==
    LET idx == ((p * n) \div 100) - 1
    IN IF idx < 0 THEN 0 ELSE IF idx >= n THEN n - 1 ELSE idx

\* if stats.Received > 0 { ... if len(stats.Latencies) > 0 { for _, p := range percentiles
\* { ... stats.Latencies[idx] } } }
printedPercentiles(stats) ==
    IF stats.Received > 0 /\ Len(stats.Latencies) > 0
    THEN [p \in Percentiles |->
            stats.Latencies[percentileIndex(p, Len(stats.Latencies)) + 1]]
    ELSE NothingPrinted

StatsOff ==
    /\ statsIn = <<>>
    /\ statsOut = ZeroStats
    /\ statsPc = "off"
    /\ statsPrinted = NothingPrinted

ScoreOff ==
    /\ scoreKind = ""
    /\ scoreCmp = NewComparison
    /\ scorePc = "off"
    /\ scorePrinted = NoWinnerLine

MaxLen == 3
DefaultCount == 10
SampleLatencies == {1, 2, 5}

SampleResults == {PingOk(l) : l \in SampleLatencies} \cup {PingFail("timeout")}

RECURSIVE SeqsUpTo(_, _)
SeqsUpTo(S, n) ==
    IF n = 0 THEN {<<>>}
    ELSE LET shorter == SeqsUpTo(S, n - 1)
         IN shorter \cup {Append(s, x) : s \in {t \in shorter : Len(t) = n - 1}, x \in S}

AllFailed(n) == [k \in 1..n |-> PingFail("connection refused")]

\* n successful probes, each a nanosecond slower than the one before
Ramp(n) == [k \in 1..n |-> PingOk(k)]

StatsInputs ==
    SeqsUpTo(SampleResults, MaxLen)
    \cup {AllFailed(n) : n \in 0..DefaultCount}
    \cup {Ramp(DefaultCount), Ramp(2 * DefaultCount)}

StatsInit ==
    /\ impl \in Impls
    /\ statsIn \in StatsInputs
    /\ statsOut = ZeroStats
    /\ statsPc = "input"
    /\ statsPrinted = NothingPrinted
    /\ ScoreOff
    /\ IcmpOff
    /\ RunOff
    /\ DnsOff
    /\ DaemonOff
    /\ AppOff
    /\ EchoOff
    /\ ChecksumOff

CalculateStats ==
    /\ statsPc = "input"
    /\ statsOut' = calculateStats(impl, statsIn)
    /\ statsPc' = "done"
    /\ UNCHANGED <<impl, statsIn, statsPrinted>>
    /\ UNCHANGED notStatsVars

\* printResults: if len(lt.results4) > 0 { stats4 := lt.calculateStats(lt.results4);
\* lt.printProtocolStats("IPv4", lt.target4, stats4) }   (command line tool only)
PrintProtocolStats ==
    /\ impl = "cli"
    /\ statsPc = "done"
    /\ Len(statsIn) > 0
    /\ statsPrinted' = printedPercentiles(statsOut)
    /\ statsPc' = "printed"
    /\ UNCHANGED <<impl, statsIn, statsOut>>
    /\ UNCHANGED notStatsVars

StatsNext == CalculateStats \/ PrintProtocolStats

SpecStats == StatsInit /\ [][StatsNext]_vars

(***************************************************************************)
(* SpecScore: the score functions applied to bounded Statistics.  Every    *)
(* phase of one comparison sends the same number of probes, so the four    *)
(* Statistics share Sent; a successful probe takes a measurable time, so   *)
(* Avg > 0 whenever Received > 0.                                          *)
(***************************************************************************)
MaxSent == 2
SampleAvgMs == {10, 15, 25}

SampleStats(sent) ==
    {[ZeroStats EXCEPT !.Sent = sent, !.Lost = sent]} \cup
    {[ZeroStats EXCEPT !.Sent = sent, !.Received = r, !.Lost = sent - r,
                       !.Avg = ms * NsPerMs, !.Min = ms * NsPerMs, !.Max = ms * NsPerMs,
                       !.Latencies = [k \in 1..r |-> ms * NsPerMs]] :
        r \in 1..sent, ms \in SampleAvgMs}

\* only the TCP/UDP comparison records a second protocol
SecondaryStats(kind, sent) == IF kind = "TCP/UDP" THEN SampleStats(sent) ELSE {ZeroStats}

ScoreInit ==
    /\ impl \in Impls
    /\ scoreKind \in CompareKinds
    /\ \E sent \in 1..MaxSent :
         \E p4 \in SampleStats(sent), p6 \in SampleStats(sent) :
           \E u4 \in SecondaryStats(scoreKind, sent), u6 \in SecondaryStats(scoreKind, sent) :
             scoreCmp =
                  [NewComparison EXCEPT
                     !.stats = [slot \in StatSlots |->
                        IF slot = PrimarySlots(scoreKind)[1] THEN p4
                        ELSE IF slot = PrimarySlots(scoreKind)[2] THEN p6
                        ELSE IF scoreKind = "TCP/UDP" /\ slot = "UDPv4Stats" THEN u4
                        ELSE IF scoreKind = "TCP/UDP" /\ slot = "UDPv6Stats" THEN u6
                        ELSE ZeroStats]]
    /\ scorePc = "input"
    /\ scorePrinted = NoWinnerLine
    /\ StatsOff
    /\ IcmpOff
    /\ RunOff
    /\ DnsOff
    /\ DaemonOff
    /\ AppOff
    /\ EchoOff
    /\ ChecksumOff

CalculateScores ==
    /\ scorePc = "input"
    /\ scoreCmp' = calculateScores(impl, scoreKind, scoreCmp)
    /\ scorePc' = "done"
    /\ UNCHANGED <<impl, scoreKind, scorePrinted>>
    /\ UNCHANGED notScoreVars

\* main.go, without -json: printComparisonResults, printICMPComparisonResults,
\* printHTTPComparisonResults, printDNSComparisonResults
PrintComparisonResults ==
    /\ impl = "cli"
    /\ scorePc = "done"
    /\ scorePrinted' = winnerLine(scoreKind, scoreCmp)
    /\ scorePc' = "printed"
    /\ UNCHANGED <<impl, scoreKind, scoreCmp>>
    /\ UNCHANGED notScoreVars

ScoreNext == CalculateScores \/ PrintComparisonResults

SpecScore == ScoreInit /\ [][ScoreNext]_vars

(***************************************************************************)
(* SpecICMP: one call of testICMPv4 / testICMPv6 on every combination of   *)
(* what the three mechanisms would return.                                 *)
(***************************************************************************)
ICMPInit ==
    /\ impl \in Impls
    /\ icmpFamily \in Families
    /\ icmpEnv \in [Mechanisms -> Outcomes]
    /\ icmpSize \in PayloadSizes
    /\ icmpPc = firstMechanism(impl)
    /\ icmpAttempts = <<>>
    /\ icmpResult = PingFail("")
    /\ icmpEchoes = [m \in Mechanisms |-> 0]
    /\ icmpOpen = {}
    /\ icmpSockets = 0
    /\ StatsOff
    /\ ScoreOff
    /\ RunOff
    /\ DnsOff
    /\ DaemonOff
    /\ AppOff
    /\ EchoOff
    /\ ChecksumOff

ICMPNext ==
    \/ ICMPOpenSocket
    \/ ICMPTryUnprivileged
    \/ ICMPTryRaw
    \/ ICMPFallbackCheck
    \/ ICMPTryTCP

SpecICMP == ICMPInit /\ [][ICMPNext]_vars

(***************************************************************************)
(* SpecDNS: one call of testDNS for every transport, query ID and reply.   *)
(***************************************************************************)
SampleIDs == {0, 1, 256, 257, 65535}
SampleBytes == {0, 1, 255}
SampleLengths == {0, 1, 11, 12, 13, 512, 513, 4096, 4097, 65535}

DNSReplies ==
    {TransportError}
    \cup {[kind |-> "message", status |-> st, length |-> n,
           head |-> <<(IF n >= 1 THEN b1 ELSE 0), (IF n >= 2 THEN b2 ELSE 0)>>] :
            st \in {200, 500}, n \in SampleLengths, b1 \in SampleBytes, b2 \in SampleBytes}

DNSInit ==
    /\ impl \in Impls
    /\ dnsProtocol \in DNSProtocols \cup {"quic"}
    /\ dnsQueryID \in SampleIDs
    /\ dnsReply \in {r \in DNSReplies : r.kind = "message" /\ dnsProtocol # "doh" => r.status = 200}
    /\ dnsPc = "call"
    /\ dnsResult = PingFail("")
    /\ StatsOff
    /\ ScoreOff
    /\ IcmpOff
    /\ RunOff
    /\ DaemonOff
    /\ AppOff
    /\ EchoOff
    /\ ChecksumOff

DNSNext == TestDNS

SpecDNS == DNSInit /\ [][DNSNext]_vars

(***************************************************************************)
(* SpecDaemon: runDaemon with a ticker and signals arriving at any time.   *)
(* SpecDaemonLive adds the fairness of the daemon's own steps.             *)
(***************************************************************************)
MaxCycles == 2

TestLists ==
    {<<[Enabled |-> TRUE]>>,
     <<[Enabled |-> TRUE], [Enabled |-> TRUE]>>,
     <<[Enabled |-> FALSE], [Enabled |-> TRUE]>>}

DaemonInit ==
    /\ impl = "cli"
    /\ daemon \in [MaxRetries : {-1, 0, 1}, StopOnFailure : BOOLEAN, PidFile : BOOLEAN]
    /\ tests \in TestLists
    /\ daemonPc = "start"
    /\ testIdx = 0
    /\ retries = 0
    /\ daemonResult = ZeroDaemonResult
    /\ sigChan = FALSE
    /\ tickerC = FALSE
    /\ pidFile = FALSE
    /\ cycles = 0
    /\ attempts = NoHistory
    /\ waits = NoHistory
    /\ cycleOutput = NoHistory
    /\ stopped = FALSE
    /\ StatsOff
    /\ ScoreOff
    /\ IcmpOff
    /\ RunOff
    /\ DnsOff
    /\ AppOff
    /\ EchoOff
    /\ ChecksumOff

\* The ticker sends into ticker.C, which holds one tick; the model stops the
\* clock once MaxCycles cycles have been started.
Tick ==
    /\ DaemonRunning
    /\ ~tickerC
    /\ cycles < MaxCycles
    /\ tickerC' = TRUE
    /\ UNCHANGED <<impl, daemon, tests, daemonPc, testIdx, retries, daemonResult, sigChan, pidFile,
                   cycles, attempts, waits, cycleOutput, stopped>>
    /\ UNCHANGED notDaemonVars

\* SIGINT or SIGTERM is delivered into sigChan, which holds one signal.
DeliverSignal ==
    /\ DaemonRunning
    /\ ~sigChan
    /\ sigChan' = TRUE
    /\ UNCHANGED <<impl, daemon, tests, daemonPc, testIdx, retries, daemonResult, tickerC, pidFile,
                   cycles, attempts, waits, cycleOutput, stopped>>
    /\ UNCHANGED notDaemonVars

TestCycleStep == DaemonStart \/ RangeTests \/ RetryLoop \/ RunSingleTest \/ RetrySleep \/ WriteResult

DaemonNext ==
    \/ DaemonStart
    \/ RangeTests
    \/ RetryLoop
    \/ RunSingleTest
    \/ RetrySleep
    \/ WriteResult
    \/ SelectTick
    \/ SelectSignal
    \/ Tick
    \/ DeliverSignal

SpecDaemon == DaemonInit /\ [][DaemonNext]_vars

\* Every test cycle terminates (the premise of the shutdown guarantee), and a
\* select with several ready cases picks one by uniform random choice, so a
\* signal that stays in sigChan is not passed over for ever.
SpecDaemonLive ==
    /\ DaemonInit
    /\ [][DaemonNext]_vars
    /\ WF_vars(TestCycleStep)
    /\ SF_vars(SelectSignal)

(***************************************************************************)
(* SpecApp: frontend calls of RunTest, DeleteHistoryEntry and ClearHistory *)
(* arriving in any order, a call of RunTest possibly before another one    *)
(* has returned.                                                           *)
(***************************************************************************)
MaxRuns == 3
MaxDeletes == 2

Requests == {"tcp", "ftp"}

\* The history loadHistory finds on disk: what n earlier runs have left.
LoadedHistory(n) == [k \in 1..n |-> HistoryEntry(n + 1 - k, "tcp")]

AppInit ==
    /\ impl = "gui"
    /\ \E n \in {0, HistoryCap - 1, HistoryCap} :
         /\ testHistory = LoadedHistory(n)
         /\ clock = n
    /\ callerPc = [c \in Callers |-> "idle"]
    /\ callerReq = [c \in Callers |-> ""]
    /\ started = 0
    /\ deleted = 0
    /\ StatsOff
    /\ ScoreOff
    /\ IcmpOff
    /\ RunOff
    /\ DnsOff
    /\ DaemonOff
    /\ EchoOff
    /\ ChecksumOff

\* RunTest(req) up to the switch: the tester is built and its Run*Test begins
RunTest(c) ==
    /\ callerPc[c] = "idle"
    /\ started < MaxRuns
    /\ \E protocol \in Requests :
         /\ callerReq' = [callerReq EXCEPT ![c] = protocol]
         /\ callerPc' = [callerPc EXCEPT ![c] = IF RunsTester(protocol) THEN "probing" ELSE "adding"]
    /\ started' = started + 1
    /\ UNCHANGED <<impl, testHistory, clock, deleted>>
    /\ UNCHANGED notAppVars

\* result = t.RunTCPTest() returns
TesterReturns(c) ==
    /\ callerPc[c] = "probing"
    /\ callerPc' = [callerPc EXCEPT ![c] = "adding"]
    /\ UNCHANGED <<impl, testHistory, clock, callerReq, started, deleted>>
    /\ UNCHANGED notAppVars

\* a.addToHistory("", req, result); return result
AddToHistory(c) ==
    /\ callerPc[c] = "adding"
    /\ clock' = clock + 1
    /\ testHistory' = addToHistory(testHistory, HistoryEntry(clock + 1, callerReq[c]))
    /\ callerPc' = [callerPc EXCEPT ![c] = "idle"]
    /\ UNCHANGED <<impl, callerReq, started, deleted>>
    /\ UNCHANGED notAppVars

\* The IDs the frontend asks to delete: the newest, the oldest and a middle
\* entry of the list it shows, and an ID that is not in the list.
DeletableIDs ==
    {0} \cup {testHistory[k].ID : k \in {1, (Len(testHistory) + 1) \div 2, Len(testHistory)}
                                        \cap (1..Len(testHistory))}

DeleteHistoryEntry ==
    /\ deleted < MaxDeletes
    /\ \E id \in DeletableIDs : testHistory' = deleteHistoryEntry(testHistory, id)
    /\ deleted' = deleted + 1
    /\ UNCHANGED <<impl, clock, callerPc, callerReq, started>>
    /\ UNCHANGED notAppVars

\* a.testHistory = make([]HistoryEntry, 0, 100)
ClearHistory ==
    /\ testHistory' = <<>>
    /\ UNCHANGED <<impl, clock, callerPc, callerReq, started, deleted>>
    /\ UNCHANGED notAppVars

AppNext ==
    \/ \E c \in Callers : RunTest(c)
    \/ \E c \in Callers : TesterReturns(c)
    \/ \E c \in Callers : AddToHistory(c)
    \/ DeleteHistoryEntry
    \/ ClearHistory

SpecApp == AppInit /\ [][AppNext]_vars

(***************************************************************************)
(* SpecEcho: one call of sendICMPv4/6Unprivileged or sendICMPv4/6Raw, with *)
(* packets, interruptions and silence arriving in any order.  Time is      *)
(* counted in ticks; lt.timeout is RecvTimeout ticks.                      *)
(***************************************************************************)
RecvTimeout == 3
MaxElapsed == 2 * RecvTimeout

SampleSeqs == {1, 65535, 65536, 65537}

\* What the socket can deliver to a probe with sequence number seq.
SampleReplies(mech, family, seq) ==
    {[n |-> n, ihl |-> ihl, type |-> t, id |-> id, seq |-> sq] :
        n \in (IF mech = "raw" /\ family = "4" THEN {27, 28, 31, 32} ELSE {7, 8}),
        ihl \in (IF mech = "raw" /\ family = "4" THEN {5, 6} ELSE {0}),
        t \in {EchoReplyType(family), EchoRequestType(family), 3},
        id \in {PutUint16(uint16(Pid)), PutUint16(1)},
        sq \in {PutUint16(uint16(seq)), PutUint16(uint16(seq + 1))}}

\* the command line tool never calls its unprivileged variant (testICMPv4
\* and testICMPv6 go to the raw socket first)
EchoInit ==
    /\ impl \in Impls
    /\ echoMech \in (IF impl = "gui" THEN {"unpriv", "raw"} ELSE {"raw"})
    /\ echoFamily \in Families
    /\ echoSeq \in SampleSeqs
    /\ echoPc = "send"
    /\ echoElapsed = 0
    /\ echoRequest = NoPacket
    /\ echoReply = NoPacket
    /\ echoEvent = "none"
    /\ echoResult = PingFail("")
    /\ StatsOff
    /\ ScoreOff
    /\ IcmpOff
    /\ RunOff
    /\ DnsOff
    /\ DaemonOff
    /\ AppOff
    /\ ChecksumOff

\* how long a wait of the receive loop can last before something arrives:
\* unprivileged: select with tv = time.Until(deadline), deadline = start + timeout
\* raw: Recvfrom under SO_RCVTIMEO = timeout, which every call starts anew
waitLimit(mech, elapsed) == IF mech = "unpriv" THEN RecvTimeout - elapsed ELSE RecvTimeout

\* start := time.Now(); packet := ...; syscall.Write(fd, packet) / syscall.Sendto(...)
SendEchoRequest ==
    /\ echoPc = "send"
    /\ echoRequest' = echoRequestPacket(echoFamily, echoSeq)
    /\ echoPc' = "loop"
    /\ UNCHANGED <<impl, echoMech, echoFamily, echoSeq, echoElapsed, echoReply, echoEvent,
                   echoResult>>
    /\ UNCHANGED notEchoVars

\* one turn of the loop in which Recvfrom delivers a packet
RecvReply ==
    /\ echoPc = "loop"
    /\ \E d \in 0..(waitLimit(echoMech, echoElapsed) - 1) :
         /\ echoElapsed + d <= MaxElapsed
         /\ echoElapsed' = echoElapsed + d
    /\ \E reply \in SampleReplies(echoMech, echoFamily, echoSeq) :
         /\ echoReply' = reply
         /\ IF replyAccepted(echoMech, echoFamily, echoSeq, reply)
            THEN echoPc' = "returned" /\ echoResult' = PingOk(IcmpLatency)
            ELSE echoPc' = "loop" /\ UNCHANGED echoResult
    /\ echoEvent' = "packet"
    /\ UNCHANGED <<impl, echoMech, echoFamily, echoSeq, echoRequest>>
    /\ UNCHANGED notEchoVars

\* one turn of the loop in which the wait is interrupted by a signal:
\* unprivileged: if err == syscall.EINTR { continue }
\* raw: Recvfrom returns the error, and so does the probe
RecvInterrupted ==
    /\ echoPc = "loop"
    /\ \E d \in 0..(waitLimit(echoMech, echoElapsed) - 1) :
         /\ echoElapsed + d <= MaxElapsed
         /\ echoElapsed' = echoElapsed + d
    /\ IF echoMech = "unpriv"
       THEN echoPc' = "loop" /\ UNCHANGED echoResult
       ELSE echoPc' = "returned" /\ echoResult' = PingFail("interrupted system call")
    /\ echoEvent' = "eintr"
    /\ UNCHANGED <<impl, echoMech, echoFamily, echoSeq, echoRequest, echoReply>>
    /\ UNCHANGED notEchoVars

\* one turn of the loop in which nothing arrives:
\* unprivileged: remaining <= 0, or select returns not ready: "timeout"
\* raw: Recvfrom fails once SO_RCVTIMEO has run out
RecvTimesOut ==
    /\ echoPc = "loop"
    /\ echoElapsed + waitLimit(echoMech, echoElapsed) <= MaxElapsed
    /\ echoElapsed' = echoElapsed + waitLimit(echoMech, echoElapsed)
    /\ echoPc' = "returned"
    /\ echoResult' = IF echoMech = "unpriv" THEN PingFail("timeout")
                     ELSE PingFail("resource temporarily unavailable")
    /\ echoEvent' = "timeout"
    /\ UNCHANGED <<impl, echoMech, echoFamily, echoSeq, echoRequest, echoReply>>
    /\ UNCHANGED notEchoVars

EchoNext ==
    \/ SendEchoRequest
    \/ RecvReply
    \/ RecvInterrupted
    \/ RecvTimesOut

SpecEcho == EchoInit /\ [][EchoNext]_vars

(***************************************************************************)
(* SpecChecksum: calculateChecksum on every packet of 4 to MaxPacket bytes *)
(* drawn from SampleBytes.                                                 *)
(***************************************************************************)
MaxPacket == 6

ChecksumInit ==
    /\ impl \in Impls
    /\ ckPacket \in UNION {[1..n -> SampleBytes] : n \in 4..MaxPacket}
    /\ ckData = ckPacket
    /\ ckSum = 0
    /\ ckPc = "call"
    /\ StatsOff
    /\ ScoreOff
    /\ IcmpOff
    /\ RunOff
    /\ DnsOff
    /\ DaemonOff
    /\ AppOff
    /\ EchoOff

\* checksum := calculateChecksum(packet)
CalculateChecksum ==
    /\ ckPc = "call"
    /\ LET r == calculateChecksum(ckData)
       IN ckData' = r.data /\ ckSum' = r.sum
    /\ ckPc' = "returned"
    /\ UNCHANGED <<impl, ckPacket>>
    /\ UNCHANGED notChecksumVars

ChecksumNext == CalculateChecksum

SpecChecksum == ChecksumInit /\ [][ChecksumNext]_vars

(***************************************************************************)
(* Spec: a tester built from a bounded test configuration, on a network    *)
(* whose condition is fixed for the run, and every operation on it.        *)
(***************************************************************************)
MaxCount == 2
Interval == 100 * NsPerMs
Timeout == 500 * NsPerMs

BaseConfig ==
    [target4 |-> DefaultTarget4, target6 |-> DefaultTarget6, hostname |-> "", count |-> 1,
     interval |-> Interval, timeout |-> Timeout, ipv4Only |-> FALSE, ipv6Only |-> FALSE]

\* single tests: both families, one family only, and (gui) no IPv6 target
SingleConfigs(engine) ==
    {[BaseConfig EXCEPT !.count = c] : c \in 1..MaxCount}
    \cup {[BaseConfig EXCEPT !.count = c, !.ipv4Only = TRUE] : c \in 1..MaxCount}
    \cup {[BaseConfig EXCEPT !.count = c, !.ipv6Only = TRUE] : c \in 1..MaxCount}
    \cup (IF engine = "gui"
          THEN {[BaseConfig EXCEPT !.count = c, !.target6 = ""] : c \in 1..MaxCount}
          ELSE {})

CompareConfigs ==
    {[BaseConfig EXCEPT !.count = c, !.hostname = h] : c \in 1..MaxCount, h \in Hostnames}

\* the mode flags of a fresh tester: none in the gui; on the command line
\* exactly one for a single test (-t by default) and, with -compare, none
\* or one of -icmp, -http, -dns
InitialModes(engine, cfg) ==
    IF engine = "gui" THEN {onlyMode("")}
    ELSE IF cfg.hostname = "" THEN {onlyMode(p) : p \in Protocols}
    ELSE {onlyMode(p) : p \in {"", "icmp", "http", "dns"}}

Init ==
    /\ impl \in Impls
    /\ config \in SingleConfigs(impl) \cup CompareConfigs
    /\ \E modes \in InitialModes(impl, config) : lt = assign(NewTester(config), modes)
    /\ net \in [Families -> PathStates]
    /\ results4 = <<>>
    /\ results6 = <<>>
    /\ op = NoOp
    /\ pc = "idle"
    /\ locals = NoLocals
    /\ plan = <<>>
    /\ i = 0
    /\ cur = NoProbe
    /\ comparison = NewComparison
    /\ out = NoOutput
    /\ seqLog = <<>>
    /\ sleeps = 0
    /\ phaseLog = <<>>
    /\ listAccess = NoAccess
    /\ StatsOff
    /\ ScoreOff
    /\ IcmpOff
    /\ DnsOff
    /\ DaemonOff
    /\ AppOff
    /\ EchoOff
    /\ ChecksumOff

Next ==
    \/ \E p \in Protocols : RunProtocolTest(p)
    \/ \E kind \in CompareKinds : RunCompareTest(kind)
    \/ Main
    \/ EnterTestIP
    \/ StartProbe
    \/ ProbeReturns
    \/ AppendResult
    \/ IntervalSleep
    \/ ReturnFromTestIP
    \/ RecordStats
    \/ Return

Spec == Init /\ [][Next]_vars


(***************************************************************************)
(* Claims about calculateStats (checked under SpecStats).                  *)
(***************************************************************************)
SuccessIndexes(results) == {k \in 1..Len(results) : results[k].Success}

\* C4: for every result sequence R, calculateStats(R) has sent = length of R,
\* received = number of successful entries of R and lost = sent - received,
\* hence sent = received + lost and 0 <= received <= sent.
C4_SentReceivedLost ==
    statsPc = "done" =>
        /\ statsOut.Sent = Len(statsIn)
        /\ statsOut.Received = Cardinality(SuccessIndexes(statsIn))
        /\ statsOut.Lost = statsOut.Sent - statsOut.Received
        /\ statsOut.Sent = statsOut.Received + statsOut.Lost
        /\ 0 <= statsOut.Received
        /\ statsOut.Received <= statsOut.Sent

C4_Witness ==
    /\ statsPc = "done"
    /\ Len(statsIn) = MaxLen
    /\ statsOut.Received > 0
    /\ statsOut.Lost > 0

\* C5: a result sequence without a successful probe (the empty sequence
\* included) reduces to min = max = avg = stddev = jitter = 0 and an empty
\* latency list; ten failed probes give sent 10, received 0, lost 10.
C5_NoSuccessAllZero ==
    (statsPc = "done" /\ SuccessIndexes(statsIn) = {}) =>
        /\ statsOut.Min = 0
        /\ statsOut.Max = 0
        /\ statsOut.Avg = 0
        /\ statsOut.StdDev = 0
        /\ statsOut.Jitter = 0
        /\ statsOut.Latencies = <<>>
        /\ statsOut.Received = 0
        /\ (statsIn = AllFailed(DefaultCount) =>
                statsOut.Sent = 10 /\ statsOut.Lost = 10)

C5_Witness ==
    /\ statsPc = "done"
    /\ statsIn = AllFailed(DefaultCount)
    /\ statsOut.Sent = 10
    /\ statsOut.Received = 0

(***************************************************************************)
(* Claims about the comparison scores (checked under SpecScore).           *)
(***************************************************************************)
\* (received / sent) * (1000 / avgLatencyMs) as one fraction, 0 without a success
StatedProtocolScore(st) ==
    IF st.Received = 0 THEN FracZero
    ELSE FracMul(Frac(st.Received, st.Sent), Frac(1000 * NsPerMs, st.Avg))

StatedFamilyScore(tcp, udp) ==
    FracAdd(FracMul(<<3, 5>>, StatedProtocolScore(tcp)),
            FracMul(<<2, 5>>, StatedProtocolScore(udp)))

FullSuccessAt(st, ms) == st.Received = st.Sent /\ st.Avg = ms * NsPerMs

\* |a - b| <= 1/100
WithinHundredth(a, b) ==
    LET d == FracSub(a, b)
    IN ~FracGt(<<Abs(d[1]), d[2]>>, <<1, 100>>)

\* C8: in the TCP/UDP comparison each family's score is
\* 0.6 x TCPscore + 0.4 x UDPscore with protocolScore = (received/sent) x
\* (1000 / avgLatencyMs), a protocol without a success contributing 0; TCP at
\* 15 ms and UDP at 25 ms, both fully successful, score 56.0 within 0.01.
C8_WeightedFamilyScore ==
    (scorePc = "done" /\ scoreKind = "TCP/UDP") =>
        LET st == scoreCmp.stats
        IN /\ FracEq(scoreCmp.IPv4Score,
                     StatedFamilyScore(st["TCPv4Stats"], st["UDPv4Stats"]))
           /\ FracEq(scoreCmp.IPv6Score,
                     StatedFamilyScore(st["TCPv6Stats"], st["UDPv6Stats"]))
           /\ (FullSuccessAt(st["TCPv4Stats"], 15) /\ FullSuccessAt(st["UDPv4Stats"], 25)
                 => WithinHundredth(scoreCmp.IPv4Score, <<56, 1>>))
           /\ (FullSuccessAt(st["TCPv6Stats"], 15) /\ FullSuccessAt(st["UDPv6Stats"], 25)
                 => WithinHundredth(scoreCmp.IPv6Score, <<56, 1>>))

C8_Witness ==
    /\ scorePc = "done"
    /\ scoreKind = "TCP/UDP"
    /\ FullSuccessAt(scoreCmp.stats["TCPv4Stats"], 15)
    /\ FullSuccessAt(scoreCmp.stats["UDPv4Stats"], 25)
    /\ scoreCmp.IPv4Score = <<56, 1>>
    /\ scoreCmp.stats["TCPv6Stats"].Received = 0
    /\ scoreCmp.stats["UDPv6Stats"].Received > 0

\* C9: the ICMP, HTTP and DNS comparisons all score a family with the same
\* unweighted protocolScore, the success rate being a fraction in [0,1]: full
\* success at an average of T ms scores 1000/T (10 ms -> 100, 25 ms -> 40).
C9_SingleProtocolScore ==
    (scorePc = "done" /\ scoreKind \in {"ICMP", "HTTP", "DNS"}) =>
        LET s4 == scoreCmp.stats[PrimarySlots(scoreKind)[1]]
            s6 == scoreCmp.stats[PrimarySlots(scoreKind)[2]]
        IN /\ FracEq(scoreCmp.IPv4Score, StatedProtocolScore(s4))
           /\ FracEq(scoreCmp.IPv6Score, StatedProtocolScore(s6))
           /\ (FullSuccessAt(s4, 10) => scoreCmp.IPv4Score = <<100, 1>>)
           /\ (FullSuccessAt(s4, 25) => scoreCmp.IPv4Score = <<40, 1>>)

\* C10: Winner is "IPv4" exactly when IPv4Score > IPv6Score, "IPv6" exactly
\* when IPv6Score > IPv4Score and "Tie" exactly when the scores are equal
\* (also when neither family had a success); no other value is produced.
C10_WinnerByStrictlyHigherScore ==
    scorePc = "done" =>
        LET diff == FracSub(scoreCmp.IPv4Score, scoreCmp.IPv6Score)[1]
        IN /\ scoreCmp.Winner \in {"IPv4", "IPv6", "Tie"}
           /\ (scoreCmp.Winner = "IPv4") <=> (diff > 0)
           /\ (scoreCmp.Winner = "IPv6") <=> (diff < 0)
           /\ (scoreCmp.Winner = "Tie") <=> (diff = 0)

C10_Witness ==
    /\ scorePc = "done"
    /\ scoreCmp.Winner = "Tie"
    /\ scoreCmp.IPv4Score # FracZero
    /\ scoreCmp.stats[PrimarySlots(scoreKind)[1]] # scoreCmp.stats[PrimarySlots(scoreKind)[2]]

(***************************************************************************)
(* Claims about the ICMP fallback chain (checked under SpecICMP).          *)
(***************************************************************************)
FallbackOrder == <<"unpriv", "raw", "tcp">>

PermissionClass == {"operation not permitted", "permission denied"}

\* C1: one ICMP probe tries unprivileged socket, raw socket, TCP connect in
\* that order; it moves to the next mechanism only after a permission-denied
\* class failure ("operation not permitted" or "permission denied") of the
\* current one, and returns a success or any other failure at once.
C1_FallbackChain ==
    /\ Len(icmpAttempts) <= 3
    /\ \A k \in 1..Len(icmpAttempts) : icmpAttempts[k] = FallbackOrder[k]
    /\ \A k \in 1..(Len(icmpAttempts) - 1) : icmpEnv[icmpAttempts[k]] \in PermissionClass
    /\ icmpPc = "returned" =>
          LET last == icmpAttempts[Len(icmpAttempts)]
          IN /\ icmpAttempts # <<>>
             /\ icmpResult = mechanismResult(icmpEnv[last])
             /\ (icmpEnv[last] \in PermissionClass => last = "tcp")

(***************************************************************************)
(* Claims about the probe loop and the comparison (Spec).                  *)
(***************************************************************************)
UpTo(n) == [k \in 1..n |-> k]

\* the family the running call of testIPv4 / testIPv6 probes
RunningFamily == Head(plan).family

\* C2: in testIPv4 / testIPv6 with count = N the probes carry the sequence
\* numbers 1..N and run one after another: when probe k is dispatched and
\* while it is in flight, the k-1 earlier probes have returned, their
\* results are in the family's result list, and k-1 interval sleeps have
\* elapsed; a sleep is taken only after the result of a probe that is not
\* the last one has been appended; when the function returns, exactly N
\* probes were dispatched and exactly N-1 sleeps were taken, so no sleep
\* follows the last probe.
C2_SequentialProbes ==
    /\ pc \in {"probe", "append"} =>
          /\ seqLog = UpTo(cur.seq)
          /\ cur.seq <= lt.count
          /\ cur.returned = (pc = "append")
          /\ Len(resultsOf(cur.family)) = cur.seq - 1
          /\ sleeps = cur.seq - 1
    /\ pc = "sleep" =>
          /\ cur.returned
          /\ cur.seq < lt.count
          /\ Len(resultsOf(cur.family)) = cur.seq
          /\ sleeps = cur.seq - 1
    /\ pc = "stats" =>
          /\ seqLog = UpTo(lt.count)
          /\ sleeps = lt.count - 1

\* testIPv4 / testIPv6 has returned from a run of at least two probes
C2_Witness ==
    /\ pc = "stats"
    /\ lt.count >= 2
    /\ seqLog = UpTo(lt.count)
    /\ sleeps = lt.count - 1

\* C3: a probe that fails is recorded as a failed result and the run goes
\* on: when testIPv4 / testIPv6 has returned, the family's result list
\* holds exactly count entries, entry k being what probe k returned, a
\* failed entry carrying Success = false and the error.
C3_FailuresRecorded ==
    pc = "stats" =>
       LET rs == resultsOf(RunningFamily)
       IN /\ Len(rs) = lt.count
          /\ \A k \in 1..Len(rs) :
                /\ rs[k] = probeResult(net, probeProtocol(lt), RunningFamily, k)
                /\ ~rs[k].Success => (rs[k].Error # "" /\ rs[k].Latency = 0)

\* a run in which a failed probe was followed by a successful one
C3_Witness ==
    /\ pc = "stats"
    /\ LET rs == resultsOf(RunningFamily)
       IN \E j, k \in 1..Len(rs) : j < k /\ ~rs[j].Success /\ rs[k].Success

\* does the lookup of the hostname yield an address of this family
HasFamily(hostname, v4) ==
    LET answer == LookupIP(hostname)
    IN answer.err = "" /\ \E k \in 1..Len(answer.ips) : answer.ips[k].v4 = v4

CannotCompare(hostname) ==
    hostname = "" \/ ~HasFamily(hostname, TRUE) \/ ~HasFamily(hostname, FALSE)

\* C6: when the hostname is empty, does not resolve, or resolves to
\* addresses of one family only, starting a comparison ends it at once: the
\* result carries an error and no comparison, no probe has been dispatched
\* and no call of testIPv4 / testIPv6 made, and both result lists are what
\* they were before.
C6_CompareFailsBeforeProbing ==
    [][(pc \in {"idle", "done"} /\ op'.mode = "compare" /\ CannotCompare(lt.hostname)) =>
         /\ pc' = "done"
         /\ out'.ErrorMessage # ""
         /\ ~out'.HasComparison
         /\ seqLog' = <<>>
         /\ phaseLog' = <<>>
         /\ results4' = results4
         /\ results6' = results6]_vars

\* a comparison refused for a hostname with only an A record, on a tester
\* whose result lists hold the results of an earlier test
C6_Witness ==
    /\ pc = "done"
    /\ op.mode = "compare"
    /\ lt.hostname = "v4only.example"
    /\ out.ErrorMessage # ""
    /\ ~out.HasComparison
    /\ phaseLog = <<>>
    /\ results4 # <<>>

\* C7: when a comparison has finished, each of its phases (two per
\* protocol) has dispatched exactly the configured count of probes with the
\* configured interval and timeout, and that number of probes is the count
\* the output's test configuration shows.
C7_PhasesSendEchoedCount ==
    (pc = "done" /\ op.mode = "compare" /\ out.HasComparison) =>
       /\ Len(phaseLog) = IF op.protocol = "TCP/UDP" THEN 4 ELSE 2
       /\ \A k \in 1..Len(phaseLog) :
             /\ phaseLog[k].probes = lt.count
             /\ phaseLog[k].probes = out.TestConfig.count
             /\ phaseLog[k].interval = out.TestConfig.interval
             /\ phaseLog[k].timeout = out.TestConfig.timeout

\* the 0-based index the specification gives: ceil(p/100 x n) - 1, clamped to [0, n-1]
StatedPercentileIndex(p, n) ==
    LET rank == (p * n + 99) \div 100
    IN IF rank - 1 < 0 THEN 0 ELSE IF rank - 1 > n - 1 THEN n - 1 ELSE rank - 1

\* C11: for n >= 1 successful latencies, each printed percentile P50, P95,
\* P99 is the entry of the ascending-sorted successful latencies at index
\* ceil(p/100 x n) - 1, clamped to [0, n-1].
C11_PercentileIndex ==
    (statsPc = "printed" /\ SuccessIndexes(statsIn) # {}) =>
       LET sorted == SortAsc(SuccessLatencies(statsIn))
           n == Len(sorted)
       IN /\ DOMAIN statsPrinted = Percentiles
          /\ \A p \in Percentiles : statsPrinted[p] = sorted[StatedPercentileIndex(p, n) + 1]

\* how often x occurs in the sequence s
Occurrences(s, x) == Cardinality({k \in 1..Len(s) : s[k] = x})

IsPermutation(a, b) ==
    /\ Len(a) = Len(b)
    /\ \A k \in 1..Len(a) : Occurrences(a, a[k]) = Occurrences(b, a[k])

\* the mean absolute difference of consecutive entries, as a whole number of
\* nanoseconds
MeanAbsDifference(sorted) ==
    IF Len(sorted) < 2 THEN 0
    ELSE SumSeq([k \in 1..(Len(sorted) - 1) |->
                   IF sorted[k + 1] >= sorted[k] THEN sorted[k + 1] - sorted[k]
                   ELSE sorted[k] - sorted[k + 1]]) \div (Len(sorted) - 1)

C13_ProbeAlwaysReturns ==
    /\ icmpPc # "panic"
    /\ icmpPc = "returned" => (icmpResult.Success \/ icmpResult.Error # "")

\* C14: whatever sequence of RunTCPTest .. RunDNSTest and RunCompareTest
\* calls is made on one tester, the TestConfig echoed in each returned
\* TestResult is the TestConfig the tester was built from.
C14_EchoedConfigIsConfigured ==
    (impl = "gui" /\ pc = "done") => out.TestConfig = config

(***************************************************************************)
(* C15: validation of DNS responses.                                       *)
(***************************************************************************)
DnsAnswered ==
    /\ dnsPc = "returned"
    /\ dnsProtocol \in DNSProtocols
    /\ dnsReply.kind = "message"

SameID == dnsReply.head = PutUint16(dnsQueryID)

\* C15 as stated: over UDP, TCP, DoT and DoH a probe succeeds only if the
\* response has at least 12 bytes and carries the ID of the query; every
\* response shorter than 12 bytes fails as "too short", and every response of
\* at least 12 bytes with another ID fails as an ID mismatch.
C15_ResponseValidation ==
    DnsAnswered =>
        /\ dnsResult.Success => (dnsReply.length >= 12 /\ SameID)
        /\ dnsReply.length < 12 =>
              (~dnsResult.Success /\ dnsResult.Error = "DNS response too short")
        /\ (dnsReply.length >= 12 /\ ~SameID) =>
              (~dnsResult.Success /\ dnsResult.Error = "DNS response ID mismatch")

\* The replies that reach the length and ID checks: over TCP and DoT a message
\* of at most 4096 bytes, over DoH the body of a reply with status 200.
ReachesValidation ==
    /\ dnsProtocol \in {"tcp", "dot"} => dnsReply.length <= 4096
    /\ dnsProtocol = "doh" => dnsReply.status = 200

\* C15 amended: a probe succeeds only if the response has at least 12 bytes and
\* carries the ID of the query; among the replies that reach validation a
\* response shorter than 12 bytes fails as "too short" and one of at least 12
\* bytes with another ID fails as an ID mismatch; a TCP or DoT message longer
\* than 4096 bytes fails as "too large" and a DoH reply whose status is not 200
\* fails with the HTTP status, whatever ID it carries.
C15_ResponseValidationAmended ==
    DnsAnswered =>
        /\ dnsResult.Success => (dnsReply.length >= 12 /\ SameID)
        /\ (ReachesValidation /\ dnsReply.length < 12) =>
              (~dnsResult.Success /\ dnsResult.Error = "DNS response too short")
        /\ (ReachesValidation /\ dnsReply.length >= 12 /\ ~SameID) =>
              (~dnsResult.Success /\ dnsResult.Error = "DNS response ID mismatch")
        /\ (dnsProtocol \in {"tcp", "dot"} /\ dnsReply.length > 4096) =>
              (~dnsResult.Success /\ dnsResult.Error = "DNS response too large")
        /\ (dnsProtocol = "doh" /\ dnsReply.status # 200) =>
              (~dnsResult.Success /\ dnsResult.Error = "HTTP status")

C15_Witness ==
    /\ DnsAnswered
    /\ dnsProtocol = "dot"
    /\ dnsReply.length = 4096
    /\ ~SameID
    /\ dnsResult.Error = "DNS response ID mismatch"

(***************************************************************************)
(* C16, C17, C18: the daemon.                                              *)
(***************************************************************************)
Last(seq) == seq[Len(seq)]

\* The test at position t of config.Tests has been dealt with in this cycle.
TestFinished(t) ==
    \/ testIdx > t
    \/ testIdx = t /\ daemonPc = "select"

\* What C16 says of one test of the running cycle, with at most
\* maxRetries + 1 attempts allowed.
RetryDiscipline(t, maxRetries) ==
    LET tried == attempts[t]
        n == Len(tried)
    IN /\ n <= maxRetries + 1
       /\ \A k \in 1..(n - 1) : ~tried[k].Success
       /\ n = 0 => waits[t] = 0
       /\ n > 0 => waits[t] \in {n - 1, n}
       /\ (n > 0 /\ waits[t] = n) => (daemonPc \in {"for", "attempt"} /\ testIdx = t)
       /\ Len(cycleOutput[t]) <= 1
       /\ cycleOutput[t] # <<>> => (n > 0 /\ cycleOutput[t] = <<Last(tried)>> /\ waits[t] = n - 1)
       /\ ~tests[t].Enabled => (n = 0 /\ cycleOutput[t] = <<>>)
       /\ (tests[t].Enabled /\ TestFinished(t)) => Len(cycleOutput[t]) = 1

\* C16: in a test cycle every enabled test is run at most max_retries + 1
\* times, max_retries being the value of the configuration; an attempt is
\* followed by another only if it failed; one retry_interval wait lies between
\* consecutive attempts and none follows the last; one result, the last
\* attempt's, is written for every enabled test the cycle has dealt with.
C16_RetryDiscipline ==
    \A t \in DOMAIN attempts : RetryDiscipline(t, daemon.MaxRetries)

\* C17: with stop_on_failure, once a test's final result is a failure no
\* further test is run and no further test cycle is started.
C17_StopOnFailureStops ==
    [][(daemon.StopOnFailure /\ stopped) => (cycles' = cycles /\ attempts' = attempts)]_vars

\* C18: once a signal has been delivered the daemon eventually returns, its
\* PID file removed, and no test cycle starts after the signal was observed.
C18_GracefulShutdown ==
    /\ sigChan ~> (daemonPc = "returned" /\ ~pidFile)
    /\ [][daemonPc = "returned" => cycles' = cycles]_vars

C18_Witness ==
    /\ daemonPc = "returned"
    /\ daemon.PidFile
    /\ ~pidFile
    /\ cycles = MaxCycles

\* C16 with the limit runTestCycle works with, the value left by
\* setConfigDefaults, where that value is not negative.
RetryDisciplineOfEffectiveLimit ==
    setConfigDefaults(daemon).MaxRetries >= 0 =>
        \A t \in DOMAIN attempts : RetryDiscipline(t, setConfigDefaults(daemon).MaxRetries)

(***************************************************************************)
(* C19, C20: the desktop application.                                      *)
(***************************************************************************)
NewestFirst(history) ==
    \A k \in 1..(Len(history) - 1) : history[k].ID > history[k + 1].ID

Returning(c) == callerPc[c] = "adding" /\ callerPc'[c] = "idle"

\* C19: the history never holds more than 100 entries and is ordered newest
\* first; a call of RunTest puts exactly one entry, its own, in front of the
\* entries that were there, and when that makes more than 100 the oldest is
\* the one that goes.
C19_HistoryCappedNewestFirst ==
    /\ [](Len(testHistory) <= HistoryCap /\ NewestFirst(testHistory))
    /\ [][\A c \in Callers : Returning(c) =>
            /\ testHistory' # <<>>
            /\ testHistory'[1].Request = callerReq[c]
            /\ \A e \in 1..Len(testHistory) : testHistory[e].ID < testHistory'[1].ID
            /\ Len(testHistory') = IF Len(testHistory) < HistoryCap
                                   THEN Len(testHistory) + 1 ELSE HistoryCap
            /\ \A k \in 2..Len(testHistory') : testHistory'[k] = testHistory[k - 1]]_vars

C19_Witness ==
    /\ Len(testHistory) = HistoryCap
    /\ testHistory[1].ID = HistoryCap + 2
    /\ testHistory[HistoryCap].ID = 3

\* C20: whatever the interleaving of RunTest calls, at most one of them has
\* a tester executing probes.
C20_OneTestAtATime ==
    Cardinality({c \in Callers : callerPc[c] = "probing"}) <= 1

(***************************************************************************)
(* C21: the ICMP fallback is an escalation.                                *)
(***************************************************************************)
MechanismRank(m) == CASE m = "unpriv" -> 1 [] m = "raw" -> 2 [] m = "tcp" -> 3

\* C21: within one ICMP probe no mechanism is attempted twice and none is
\* entered after a later one, so there are at most three attempts; every
\* mechanism writes at most one echo request, and only if it was attempted.
C21_EscalationNotRetry ==
    /\ Len(icmpAttempts) <= 3
    /\ \A j, k \in 1..Len(icmpAttempts) :
          j < k => MechanismRank(icmpAttempts[j]) < MechanismRank(icmpAttempts[k])
    /\ \A m \in Mechanisms :
          /\ icmpEchoes[m] <= 1
          /\ icmpEchoes[m] = 1 => \E k \in 1..Len(icmpAttempts) : icmpAttempts[k] = m

C21_Witness ==
    /\ icmpPc = "returned"
    /\ icmpAttempts = <<"unpriv", "raw", "tcp">>
    /\ icmpEchoes["unpriv"] = 0
    /\ icmpEchoes["tcp"] = 0

(***************************************************************************)
(* C22, C29: phases of a comparison and the protocol mode flags.           *)
(***************************************************************************)
SlotProtocol(slot) ==
    CASE slot \in {"TCPv4Stats", "TCPv6Stats"} -> "tcp"
      [] slot \in {"UDPv4Stats", "UDPv6Stats"} -> "udp"
      [] slot \in {"ICMPv4Stats", "ICMPv6Stats"} -> "icmp"
      [] slot \in {"HTTPv4Stats", "HTTPv6Stats"} -> "http"
      [] slot \in {"DNSv4Stats", "DNSv6Stats"} -> "dns"

SlotFamily(slot) ==
    IF slot \in {"TCPv4Stats", "UDPv4Stats", "ICMPv4Stats", "HTTPv4Stats", "DNSv4Stats"}
    THEN "4" ELSE "6"

\* The results of the first n probes of the phase that fills a slot.
OwnProbes(slot, n) ==
    [k \in 1..n |-> probeResult(net, SlotProtocol(slot), SlotFamily(slot), k)]

InPhase == pc \in {"loop", "probe", "append", "sleep", "stats"}

\* C22: in a comparison the list of the running phase holds the results of
\* that phase's probes and nothing else, the mode flags select the phase's
\* protocol, and the statistics recorded for a phase are those of its own
\* probes.
C22_PhaseCountsOwnProbes ==
    (op.mode = "compare" /\ pc \notin {"idle", "done"}) =>
        /\ InPhase =>
              LET ph == Head(plan)
                  answered == Len(seqLog) - (IF pc \in {"probe", "append"} THEN 1 ELSE 0)
              IN /\ SlotFamily(ph.slot) = ph.family
                 /\ probeProtocol(lt) = SlotProtocol(ph.slot)
                 /\ resultsOf(ph.family) = OwnProbes(ph.slot, answered)
        /\ \A slot \in StatSlots :
              comparison.stats[slot] # ZeroStats =>
                  comparison.stats[slot] = calculateStats(impl, OwnProbes(slot, lt.count))

C22_Witness ==
    /\ op.mode = "compare"
    /\ pc = "stats"
    /\ Head(plan).slot = "UDPv4Stats"
    /\ net["4"] = "up"
    /\ Len(results4) = lt.count
    /\ comparison.stats["TCPv4Stats"].Received = lt.count

ModeFlags == {"tcpMode", "udpMode", "icmpMode", "httpMode", "dnsMode"}

FlagProtocol(f) ==
    CASE f = "tcpMode" -> "tcp" [] f = "udpMode" -> "udp" [] f = "icmpMode" -> "icmp"
      [] f = "httpMode" -> "http" [] f = "dnsMode" -> "dns"

\* C29: whenever testIPv4 / testIPv6 dispatches a probe exactly one mode flag
\* is set, and the probe is of that flag's protocol.
C29_ExactlyOneModeFlag ==
    pc = "probe" =>
        /\ Cardinality({f \in ModeFlags : lt[f]}) = 1
        /\ \A f \in ModeFlags : lt[f] => cur.proto = FlagProtocol(f)

C29_Witness ==
    /\ pc = "probe"
    /\ impl = "gui"
    /\ op = [mode |-> "single", protocol |-> "dns"]
    /\ lt.dnsMode
    /\ lt.target4 # config.target4

(***************************************************************************)
(* C23, C24, C28: the ICMP receive loop.                                   *)
(***************************************************************************)
\* The ICMP bytes of a received packet: what follows the IP header on a raw
\* IPv4 socket, the whole packet elsewhere.
IcmpBytes(reply) ==
    IF echoMech = "raw" /\ echoFamily = "4" THEN reply.n - reply.ihl * 4 ELSE reply.n

\* The probe's answer: an echo reply of at least 8 ICMP bytes with the
\* probe's sequence number and, on a raw socket, the probe's identifier.
IsAnswer(reply) ==
    /\ IcmpBytes(reply) >= 8
    /\ reply.type = EchoReplyType(echoFamily)
    /\ reply.seq[1] * 256 + reply.seq[2] = echoSeq
    /\ echoMech = "raw" => reply.id[1] * 256 + reply.id[2] = Pid

\* C23: an ICMP probe reports Success only after receiving the probe's
\* answer, and a received packet that is not the answer is discarded with
\* the loop still receiving.
C23_SuccessOnlyOnMatchingReply ==
    /\ echoResult.Success => (echoEvent = "packet" /\ IsAnswer(echoReply))
    /\ (echoEvent = "packet" /\ ~IsAnswer(echoReply)) =>
          (echoPc = "loop" /\ ~echoResult.Success)

C23_Witness ==
    /\ echoPc = "returned"
    /\ echoResult.Success
    /\ echoMech = "raw"
    /\ echoFamily = "4"
    /\ echoReply.ihl = 6
    /\ echoReply.n = 32

\* C24: the probe has returned by the time its timeout has run out, whatever
\* arrives in the meantime.
C24_BoundedByTimeout ==
    echoElapsed <= RecvTimeout

\* Of the two receive loops, the one of the unprivileged socket keeps the bound.
UnprivilegedBoundedByTimeout ==
    echoMech = "unpriv" => echoElapsed <= RecvTimeout

\* C28: an echo reply carrying the sequence field of the request that was
\* written (and the identifier, on a raw socket) is accepted as the probe's
\* answer, for every sequence number up to and beyond 65535.
C28_TransmittedSequenceAccepted ==
    (/\ echoEvent = "packet"
     /\ IcmpBytes(echoReply) >= 8
     /\ echoReply.type = EchoReplyType(echoFamily)
     /\ echoReply.seq = echoRequest.seq
     /\ echoReply.id = echoRequest.id)
    => (echoPc = "returned" /\ echoResult.Success)

\* Within the range of the 16-bit field the reply to the request is accepted.
SequenceAcceptedWithinField ==
    echoSeq <= 65535 => C28_TransmittedSequenceAccepted

(***************************************************************************)
(* C25: sockets and connections of a probe.                                *)
(***************************************************************************)
\* C25: a socket or connection is open only while its own mechanism is
\* running: at most one at any time, none between two mechanisms of the
\* fallback chain, and none once the probe has returned or panicked.
C25_SocketsScopedToProbe ==
    /\ Cardinality(icmpOpen) <= 1
    /\ icmpOpen \subseteq {icmpPc}
    /\ icmpPc \in {"check", "returned", "panic"} => icmpOpen = {}

\* the unprivileged socket's write was refused, the raw socket timed out:
\* two sockets opened one after the other
C25_Witness ==
    /\ icmpPc = "returned"
    /\ icmpAttempts = <<"unpriv", "raw">>
    /\ icmpSockets = 2
    /\ icmpResult.Error = "timeout"

(***************************************************************************)
(* C26: the tester's mutex and the result lists.                           *)
(***************************************************************************)
\* C26: every access to a result list (the reset at the start of a call of
\* testIPv4/6 and the clearing before it, the append of the probe loop, the
\* read for the statistics) is made while lt.mu is held.
C26_ListAccessUnderMutex ==
    listAccess.kind # "none" => listAccess.mu

\* The append of the probe loop is made under the mutex.
AppendUnderMutex ==
    listAccess.kind = "append" => listAccess.mu

(***************************************************************************)
(* C27: the ICMP checksum.                                                 *)
(***************************************************************************)
\* The 16-bit big-endian words of a packet, an odd last byte padded with a
\* zero low byte.
WordsOf(p) ==
    [w \in 1..((Len(p) + 1) \div 2) |->
        p[2 * w - 1] * 256 + (IF 2 * w <= Len(p) THEN p[2 * w] ELSE 0)]

\* One's-complement addition of two 16-bit values: the carry is added back.
OnesAdd(a, b) == IF a + b > 65535 THEN a + b - 65535 ELSE a + b

RECURSIVE OnesSum(_)
OnesSum(ws) == IF ws = <<>> THEN 0 ELSE OnesAdd(Head(ws), OnesSum(Tail(ws)))

\* The packet with its checksum field (bytes 2 and 3) zeroed.
ChecksumZeroed(p) == [k \in 1..Len(p) |-> IF k \in {3, 4} THEN 0 ELSE p[k]]

\* C27: for a packet of at least 4 bytes, of even or odd length, the value
\* calculateChecksum returns is a 16-bit value that added to the
\* one's-complement sum of the packet with a zeroed checksum field gives
\* 0xFFFF, and the call changes no byte other than bytes 2 and 3.
C27_ChecksumComplementsSum ==
    ckPc = "returned" =>
        /\ ckSum \in 0..65535
        /\ OnesAdd(OnesSum(WordsOf(ChecksumZeroed(ckPacket))), ckSum) = 65535
        /\ Len(ckData) = Len(ckPacket)
        /\ \A k \in 1..Len(ckPacket) : k \notin {3, 4} => ckData[k] = ckPacket[k]

\* a packet of odd length whose words carry out of 16 bits
C27_Witness ==
    /\ ckPc = "returned"
    /\ ckPacket = <<255, 255, 1, 1, 255>>
    /\ ckSum = 255

(***************************************************************************)
(* C30: the percentage by which the winner is better.                      *)
(***************************************************************************)
\* C30: whenever the printed report names a winner and its percentage, the
\* loser's score, by which the difference is divided, is not zero.
C30_LoserScoreNonzero ==
    (scorePc = "printed" /\ scorePrinted.winner \in {"IPv4", "IPv6"}) =>
        scorePrinted.loserScore[1] # 0

\* The reports of the ICMP, HTTP and DNS comparisons divide by a score of a
\* family that answered.
GuardedReportsDivideByNonzero ==
    (scorePc = "printed" /\ scoreKind # "TCP/UDP" /\ scorePrinted.winner \in {"IPv4", "IPv6"}) =>
        scorePrinted.loserScore[1] # 0

====
